---- MODULE Spec2Model ----
(***************************************************************************)
(* A model of solana-program-analyzer's analysis core:                     *)
(*   - the duplicate-mutable-account detector (src/checker/mod.rs) with    *)
(*     the two extractors it joins (src/anchor_info/mod.rs);               *)
(*   - the callgraph worklist (src/analysis/callgraph.rs);                 *)
(*   - the directed graph, Dominators and PostDominators                   *)
(*     (src/analysis/graph.rs).                                            *)
(* Each component has its own specification; the variables of the other    *)
(* components keep their initial values under it.                          *)
(***************************************************************************)
EXTENDS Integers, Sequences, FiniteSets, TLC

VARIABLES
    \* ---- detector -------------------------------------------------------
    ir_impls,       \* rustc_public::all_trait_impls(): the trait-impl records
    ir_items,       \* rustc_public::all_local_items(): the function items
    metas,          \* `res`: result of find_to_account_metas()
    contexts,       \* `anchor_accounts_collection`
    final_results,  \* `final_res` of every context processed so far
    findings,       \* the "Find error" lines printed so far, in order
    dpc,            \* position in detect_duplicate_mutable_account
    \* ---- callgraph ------------------------------------------------------
    local_instances,\* the seed instances, in the order of all_local_items()
    worklist,       \* `worklist`
    cg_nodes,       \* `nodes`
    curr,           \* `curr`, the instance popped last
    curr_body,      \* `body` of curr while its blocks are scanned
    blk,            \* the next block of curr_body to scan (1-based)
    cg_calls,       \* history: the resolved calls <<caller, callee>> scanned so far
    cg_pops,        \* history: how often each instance has been popped
    cpc,            \* position in compute_instances
    \* ---- graph core -----------------------------------------------------
    graph,          \* the DirectedGraph: [nodes, successors, predecessors]
    entry,          \* Dominators: `entry`
    reverse_postorder,    \* Dominators: `reverse_postorder`
    immediate_dominators, \* Dominators: `immediate_dominators`
    changed,        \* Dominators: `changed`
    dom_i,          \* Dominators: the next element of reverse_postorder (1-based)
    dom_pc,         \* position in Dominators::compute
    dom_passes,     \* history: how often the body of `while changed` was entered
    exit_nodes,     \* PostDominators: `exit_nodes`
    pd_reverse_postorder,       \* PostDominators: `reverse_postorder`
    postorder_positions,        \* PostDominators: `postorder_positions`
    immediate_post_dominators,  \* PostDominators: `immediate_post_dominators`
    pd_changed,     \* PostDominators: `changed`
    pd_i,           \* PostDominators: the next element of reverse_postorder (1-based)
    pd_pc,          \* position in PostDominators::compute
    \* ---- set-based dominators (graph/directed_graph.rs) -------------------
    sd_graph,       \* the DirectedGraph implementor: [nodes, successors, start_node]
    sd_predecessors,\* the map compute_predecessors returned
    sd_all_nodes,   \* compute_dominators: `all_nodes`, in its iteration order
    sd_dominators,  \* compute_dominators: `dominators`
    sd_changed,     \* compute_dominators: `changed`
    sd_i,           \* compute_dominators: the next element of all_nodes (1-based)
    sd_passes,      \* history: how often the body of `loop` was entered
    sd_pc           \* position in compute_predecessors / compute_dominators

dvars == <<ir_impls, ir_items, metas, contexts, final_results, findings, dpc>>

cvars == <<local_instances, worklist, cg_nodes, curr, curr_body, blk, cg_calls,
           cg_pops, cpc>>

domvars == <<entry, reverse_postorder, immediate_dominators, changed, dom_i, dom_pc,
             dom_passes>>

pdvars == <<exit_nodes, pd_reverse_postorder, postorder_positions,
            immediate_post_dominators, pd_changed, pd_i, pd_pc>>

svars == <<sd_graph, sd_predecessors, sd_all_nodes, sd_dominators, sd_changed, sd_i,
           sd_passes, sd_pc>>

gvars == <<graph, domvars, pdvars, svars>>

vars == <<dvars, cvars, gvars>>

----------------------------------------------------------------------------
(* Small helpers.                                                          *)

None == [tag |-> "None"]

Range(s) == {s[k] : k \in DOMAIN s}

SeqsUpTo(S, n) == UNION {[1..k -> S] : k \in 0..n}

\* the components a specification does not run stay as they are constructed
DetectorIdle ==
    /\ ir_impls = <<>>
    /\ ir_items = <<>>
    /\ metas = <<>>
    /\ contexts = <<>>
    /\ final_results = <<>>
    /\ findings = <<>>
    /\ dpc = "idle"

CallgraphIdle ==
    /\ local_instances = <<>>
    /\ worklist = <<>>
    /\ cg_nodes = {}
    /\ curr = "none"
    /\ curr_body = <<>>
    /\ blk = 0
    /\ cg_calls = {}
    /\ cg_pops = <<>>
    /\ cpc = "idle"

DominatorsIdle ==
    /\ entry = "none"
    /\ reverse_postorder = <<>>
    /\ immediate_dominators = <<>>
    /\ changed = FALSE
    /\ dom_i = 0
    /\ dom_pc = "idle"
    /\ dom_passes = 0

PostDominatorsIdle ==
    /\ exit_nodes = <<>>
    /\ pd_reverse_postorder = <<>>
    /\ postorder_positions = <<>>
    /\ immediate_post_dominators = <<>>
    /\ pd_changed = FALSE
    /\ pd_i = 0
    /\ pd_pc = "idle"

SetDominatorsIdle ==
    /\ sd_graph = <<>>
    /\ sd_predecessors = <<>>
    /\ sd_all_nodes = <<>>
    /\ sd_dominators = <<>>
    /\ sd_changed = FALSE
    /\ sd_i = 0
    /\ sd_passes = 0
    /\ sd_pc = "idle"

GraphIdle ==
    /\ graph = [nodes |-> {}, successors |-> <<>>, predecessors |-> <<>>]
    /\ DominatorsIdle
    /\ PostDominatorsIdle
    /\ SetDominatorsIdle

----------------------------------------------------------------------------
(* Types of the IR (rustc_public::ty), as far as the extractors look.      *)

ACCOUNT == "anchor_lang::prelude::Account"
SIGNER  == "anchor_lang::prelude::Signer"
PROGRAM == "anchor_lang::prelude::Program"
SYSVAR  == "anchor_lang::prelude::Sysvar"
ANCHOR_ACCOUNTS  == "anchor_lang::Accounts"
META_NEW          == "anchor_lang::prelude::AccountMeta::new"
META_NEW_READONLY == "anchor_lang::prelude::AccountMeta::new_readonly"

\* a generic argument: a lifetime or a type
LifetimeArg == [g |-> "Lifetime"]
TypeArg(t)  == [g |-> "Type", ty |-> t]
\* RigidTy::Adt(adt_def, generics) / a rigid non-ADT type / a non-rigid type
AdtTy(name, args) == [kind |-> "Adt", name |-> name, args |-> args]
UintTy   == [kind |-> "Uint"]
ParamTy  == [kind |-> "Param"]

AccountOf(t) == AdtTy(ACCOUNT, <<LifetimeArg, TypeArg(AdtTy(t, <<>>))>>)
SignerTy     == AdtTy(SIGNER, <<LifetimeArg>>)
UncheckedTy  == AdtTy("anchor_lang::prelude::UncheckedAccount", <<LifetimeArg>>)

\* the field types the model declares structs with
FieldTys == {AccountOf("Vault"), AccountOf("Pool"), SignerTy, UncheckedTy}

----------------------------------------------------------------------------
(* Account-Context Extractor (src/anchor_info/mod.rs).                     *)

\* AnchorAccountKind
KindAccount(sym) == [tag |-> "Account", sym |-> sym]
KindSigner       == [tag |-> "Signer", sym |-> ""]
KindProgram      == [tag |-> "Program", sym |-> ""]
KindSysvar(sym)  == [tag |-> "Sysvar", sym |-> sym]

\* generics.0.get(1)?.ty()?.kind().rigid()? matched against RigidTy::Adt
HeldAdt(args) ==
    IF Len(args) < 2 THEN None
    ELSE IF args[2].g # "Type" THEN None
    ELSE IF args[2].ty.kind # "Adt" THEN None
    ELSE KindAccount(args[2].ty.name)

\* from_ty with the Sysvar arm building the Sysvar kind
FromTySysvarKept(ty) ==
    IF ty.kind # "Adt" THEN None
    ELSE CASE ty.name = ACCOUNT -> HeldAdt(ty.args)
           [] ty.name = SIGNER  -> KindSigner
           [] ty.name = PROGRAM -> KindProgram
           [] ty.name = SYSVAR  ->
                IF HeldAdt(ty.args) = None THEN None
                ELSE KindSysvar(HeldAdt(ty.args).sym)
           [] OTHER -> None

\* AnchorAccountKind::from_ty
FromTy(ty) ==
    IF ty.kind # "Adt" THEN None
    ELSE CASE ty.name = ACCOUNT -> HeldAdt(ty.args)
           [] ty.name = SIGNER  -> KindSigner
           [] ty.name = PROGRAM -> KindProgram
           [] ty.name = SYSVAR  -> HeldAdt(ty.args)
           [] OTHER -> None

\* AnchorAccount::from_field_def
FromFieldDef(field_def) ==
    LET kind == FromTy(field_def.ty)
    IN  IF kind = None THEN None
        ELSE [name |-> field_def.name, kind |-> kind]

RECURSIVE ClassifyFields(_, _)
\* the loop `for field_def in fields` of from_variant, from field k on
ClassifyFields(fields, k) ==
    IF k > Len(fields) THEN <<>>
    ELSE LET anchor_account == FromFieldDef(fields[k])
         IN  (IF anchor_account = None THEN <<>> ELSE <<anchor_account>>)
                 \o ClassifyFields(fields, k + 1)

\* AnchorAccounts::from_variant
FromVariant(variant) ==
    [name |-> variant.name, anchor_accounts |-> ClassifyFields(variant.fields, 1)]

\* `if let AssocKind::Fn { name, has_self } = item.kind && name == "try_accounts"
\*  && !has_self`
IsTryAccounts(item) ==
    /\ item.kind = "Fn"
    /\ item.name = "try_accounts"
    /\ ~item.has_self

RECURSIVE AssocItemsPushAll(_, _, _)
\* the loop over the associated items without its `break`
AssocItemsPushAll(items, k, variant) ==
    IF k > Len(items) THEN <<>>
    ELSE IF IsTryAccounts(items[k])
    THEN <<FromVariant(variant)>> \o AssocItemsPushAll(items, k + 1, variant)
    ELSE AssocItemsPushAll(items, k + 1, variant)

RECURSIVE AssocItemsPush(_, _, _)
\* the loop `for item in trait_impl.associated_items()`, from item k on: what it
\* pushes; the loop is left at the first push
AssocItemsPush(items, k, variant) ==
    IF k > Len(items) THEN <<>>
    ELSE IF IsTryAccounts(items[k])
    THEN <<FromVariant(variant)>>
    ELSE AssocItemsPush(items, k + 1, variant)

\* the body of the loop over trait_impls in local_anchor_accounts: what one
\* trait impl pushes
ImplAccounts(trait_impl) ==
    IF trait_impl.trait # ANCHOR_ACCOUNTS THEN <<>>
    ELSE IF ~(/\ trait_impl.self_ty.kind = "Adt"
              /\ trait_impl.self_ty.is_local
              /\ trait_impl.self_ty.adt_kind = "Struct") THEN <<>>
    ELSE AssocItemsPush(trait_impl.items, 1, trait_impl.self_ty.variant)

RECURSIVE CollectImpls(_, _)
\* the loop `for trait_impl in trait_impls`, from record k on
CollectImpls(trait_impls, k) ==
    IF k > Len(trait_impls) THEN <<>>
    ELSE ImplAccounts(trait_impls[k]) \o CollectImpls(trait_impls, k + 1)

\* local_anchor_accounts
LocalAnchorAccounts(trait_impls) == CollectImpls(trait_impls, 1)

----------------------------------------------------------------------------
(* Mutability Extractor (src/anchor_info/mod.rs).                          *)

\* the `if let` chain with `Operand::Copy(ref place)` taken for any operand
BlockMetasAnyOperand(first_arg_ty, bb) ==
    IF /\ bb.term.kind = "Call"
       /\ bb.term.func.op = "Constant"
       /\ bb.term.func.ty = "FnDef"
       /\ bb.term.func.name \in {META_NEW, META_NEW_READONLY}
       /\ Len(bb.statements) > 0
       /\ LET statement == bb.statements[Len(bb.statements)]
          IN  /\ statement.kind = "Assign"
              /\ statement.rvalue = "Use"
              /\ statement.place.local = 1
              /\ Len(statement.place.projection) = 2
              /\ statement.place.projection[1].e = "Deref"
              /\ statement.place.projection[2].e = "Field"
    THEN LET field_idx == bb.statements[Len(bb.statements)].place.projection[2].idx
         IN  IF bb.term.func.name = META_NEW
             THEN << <<first_arg_ty, "mut", field_idx>> >>
             ELSE << <<first_arg_ty, "immu", field_idx>> >>
    ELSE <<>>

\* the facts one block contributes: the `if let ... && ...` chain of the loop
\* over body.blocks, and the push under it
BlockMetas(first_arg_ty, bb) ==
    IF /\ bb.term.kind = "Call"
       /\ bb.term.func.op = "Constant"
       /\ bb.term.func.ty = "FnDef"
       /\ bb.term.func.name \in {META_NEW, META_NEW_READONLY}
       /\ Len(bb.statements) > 0
       /\ LET statement == bb.statements[Len(bb.statements)]
          IN  /\ statement.kind = "Assign"
              /\ statement.rvalue = "Use"
              /\ statement.operand = "Copy"
              /\ statement.place.local = 1
              /\ Len(statement.place.projection) = 2
              /\ statement.place.projection[1].e = "Deref"
              /\ statement.place.projection[2].e = "Field"
    THEN LET field_idx == bb.statements[Len(bb.statements)].place.projection[2].idx
         IN  IF bb.term.func.name = META_NEW
             THEN << <<first_arg_ty, "mut", field_idx>> >>
             ELSE << <<first_arg_ty, "immu", field_idx>> >>
    ELSE <<>>

RECURSIVE BodyMetas(_, _, _)
BodyMetas(first_arg_ty, blocks, k) ==
    IF k > Len(blocks) THEN <<>>
    ELSE BlockMetas(first_arg_ty, blocks[k]) \o BodyMetas(first_arg_ty, blocks, k + 1)

\* the facts one item contributes: the name filters, Instance::try_from, body(),
\* the type of local 1 and the loop over the blocks
ItemMetas(item) ==
    IF ~item.name_has_to_account_metas THEN <<>>
    ELSE IF ~item.name_has_client_accounts THEN <<>>
    ELSE IF item.requires_monomorphization THEN <<>>
    ELSE IF item.body = None THEN <<>>
    ELSE IF ~(/\ item.body.local1_ty.kind = "Ref"
              /\ item.body.local1_ty.inner.kind = "Adt") THEN <<>>
    ELSE LET path == item.body.local1_ty.inner.path
         IN  BodyMetas(path[Len(path)], item.body.blocks, 1)

RECURSIVE FindToAccountMetasFrom(_, _)
FindToAccountMetasFrom(items, k) ==
    IF k > Len(items) THEN <<>>
    ELSE ItemMetas(items[k]) \o FindToAccountMetasFrom(items, k + 1)

\* find_to_account_metas
FindToAccountMetas(items) == FindToAccountMetasFrom(items, 1)

----------------------------------------------------------------------------
(* Duplicate-Mutable-Account Detector (src/checker/mod.rs).                *)

\* `muts`: the (field_idx, mutability) of the facts named like the context
Muts(res, name) ==
    LET Keep(m) == m[1] = name
        sel == SelectSeq(res, Keep)
    IN  [k \in DOMAIN sel |-> <<sel[k][3], sel[k][2]>>]

\* the loop of lines 21-26 without its `break`: the last match
MuLastMatch(muts, idx) ==
    IF \E k \in DOMAIN muts : muts[k][1] = idx
    THEN LET last == CHOOSE k \in DOMAIN muts :
                        /\ muts[k][1] = idx
                        /\ \A l \in (k + 1)..Len(muts) : muts[l][1] # idx
         IN  muts[last][2]
    ELSE "None"

\* `mu` for the classified field at position idx (0-based): the first match
Mu(muts, idx) ==
    IF \E k \in DOMAIN muts : muts[k][1] = idx
    THEN LET first == CHOOSE k \in DOMAIN muts :
                         /\ muts[k][1] = idx
                         /\ \A l \in 1..(k - 1) : muts[l][1] # idx
         IN  muts[first][2]
    ELSE "None"

\* `final_res`: every classified field with its tag
FinalRes(anchor_accounts, res) ==
    LET muts == Muts(res, anchor_accounts.name)
    IN  [k \in DOMAIN anchor_accounts.anchor_accounts |->
            [acct |-> anchor_accounts.anchor_accounts[k], mu |-> Mu(muts, k - 1)]]

\* IsDuplicate without the guard `if i_struct == j_struct`
IsDuplicateAnyType(final_res, i, j) ==
    /\ final_res[i + 1].mu = "mut"
    /\ final_res[j + 1].mu = "mut"
    /\ final_res[i + 1].acct.kind.tag = "Account"
    /\ final_res[j + 1].acct.kind.tag = "Account"

\* the test of the inner loop body on the pair (i, j), 0-based
IsDuplicate(final_res, i, j) ==
    /\ final_res[i + 1].mu = "mut"
    /\ final_res[j + 1].mu = "mut"
    /\ final_res[i + 1].acct.kind.tag = "Account"
    /\ final_res[j + 1].acct.kind.tag = "Account"
    /\ final_res[i + 1].acct.kind.sym = final_res[j + 1].acct.kind.sym

RECURSIVE PairScan(_, _, _, _)
\* the two nested loops `for i in 0..len { for j in i + 1..len {...} }`, from (i, j)
PairScan(ctx, final_res, i, j) ==
    LET len == Len(final_res)
    IN  IF i >= len THEN <<>>
        ELSE IF j >= len THEN PairScan(ctx, final_res, i + 1, i + 2)
        ELSE (IF IsDuplicate(final_res, i, j)
              THEN << [ctx |-> ctx, i |-> i, j |-> j] >>
              ELSE <<>>) \o PairScan(ctx, final_res, i, j + 1)

----------------------------------------------------------------------------
(* The detector's steps.                                                   *)

\* line 4: let res = find_to_account_metas();
FindMetas ==
    /\ dpc = "start"
    /\ metas' = FindToAccountMetas(ir_items)
    /\ dpc' = "metas"
    /\ UNCHANGED <<ir_impls, ir_items, contexts, final_results, findings, cvars, gvars>>

\* line 7: let anchor_accounts_collection = local_anchor_accounts();
CollectContexts ==
    /\ dpc = "metas"
    /\ contexts' = LocalAnchorAccounts(ir_impls)
    /\ dpc' = "loop"
    /\ UNCHANGED <<ir_impls, ir_items, metas, final_results, findings, cvars, gvars>>

\* lines 9-50: one iteration of `for anchor_accounts in anchor_accounts_collection`
DetectContext ==
    /\ dpc = "loop"
    /\ Len(final_results) < Len(contexts)
    /\ LET c == Len(final_results) + 1
           final_res == FinalRes(contexts[c], metas)
       IN  /\ final_results' = Append(final_results, final_res)
           /\ findings' = findings \o PairScan(c, final_res, 0, 1)
    /\ UNCHANGED <<ir_impls, ir_items, metas, contexts, dpc, cvars, gvars>>

\* the loop is over: detect_duplicate_mutable_account returns
DetectDone ==
    /\ dpc = "loop"
    /\ Len(final_results) = Len(contexts)
    /\ dpc' = "done"
    /\ UNCHANGED <<ir_impls, ir_items, metas, contexts, final_results, findings, cvars, gvars>>

----------------------------------------------------------------------------
(* The detector's inputs.                                                  *)

MaxFields == 3

\* a struct deriving Accounts: field k (0-based) is named by its position
AccountsStruct(name, tys) ==
    [kind |-> "Adt", is_local |-> TRUE, adt_kind |-> "Struct",
     variant |-> [name |-> name,
                  fields |-> [k \in DOMAIN tys |-> [name |-> k - 1, ty |-> tys[k]]]]]

\* impl Accounts for <struct>, as #[derive(Accounts)] writes it
AccountsImpl(name, tys) ==
    [trait |-> ANCHOR_ACCOUNTS, self_ty |-> AccountsStruct(name, tys),
     items |-> << [kind |-> "Fn", name |-> "try_accounts", has_self |-> FALSE] >>]

\* a block `_n = copy ((*_1).idx); _m = AccountMeta::<ctor>(move _n, ..)`
MetaBlock(ctor, idx) ==
    [term |-> [kind |-> "Call", func |-> [op |-> "Constant", ty |-> "FnDef", name |-> ctor]],
     statements |-> << [kind |-> "Assign", rvalue |-> "Use", operand |-> "Copy",
                        place |-> [local |-> 1,
                                   projection |-> << [e |-> "Deref", idx |-> 0],
                                                     [e |-> "Field", idx |-> idx] >>]] >>]

\* a block that ends in another call
OtherBlock ==
    [term |-> [kind |-> "Call",
               func |-> [op |-> "Constant", ty |-> "FnDef", name |-> "alloc::vec::Vec::push"]],
     statements |-> <<>>]

\* the function ToAccountMetas::to_account_metas of __client_accounts_<name>::<Name>
ToAccountMetasItem(name, blocks) ==
    [name_has_to_account_metas |-> TRUE, name_has_client_accounts |-> TRUE,
     requires_monomorphization |-> FALSE,
     body |-> [local1_ty |-> [kind |-> "Ref",
                              inner |-> [kind |-> "Adt",
                                         path |-> <<"__client_accounts", name>>]],
               blocks |-> blocks]]

\* what each declared field's block of to_account_metas ends in
Ctors == {META_NEW, META_NEW_READONLY, "alloc::vec::Vec::push"}

\* the body #[derive(Accounts)] generates for a struct of n fields: one block per
\* declared field, in declaration order, reading field k of the client struct
GeneratedBlocks(ctors) ==
    [k \in DOMAIN ctors |->
        IF ctors[k] \in {META_NEW, META_NEW_READONLY}
        THEN MetaBlock(ctors[k], k - 1) ELSE OtherBlock]

\* the programs the detector is run on: one Accounts struct of up to MaxFields
\* fields and its generated to_account_metas
DetectorInputs ==
    {[impls |-> << AccountsImpl("Ctx", tys) >>,
      items |-> << ToAccountMetasItem("Ctx", GeneratedBlocks(ctors)) >>] :
        <<tys, ctors>> \in UNION {[1..n -> FieldTys] \X [1..n -> Ctors] : n \in 0..MaxFields}}

DetectorInit ==
    /\ \E in \in DetectorInputs :
          /\ ir_impls = in.impls
          /\ ir_items = in.items
    /\ metas = <<>>
    /\ contexts = <<>>
    /\ final_results = <<>>
    /\ findings = <<>>
    /\ dpc = "start"
    /\ CallgraphIdle
    /\ GraphIdle

DetectorNext ==
    \/ FindMetas
    \/ CollectContexts
    \/ DetectContext
    \/ DetectDone

DetectorSpec == DetectorInit /\ [][DetectorNext]_vars

----------------------------------------------------------------------------
(* Claims about the detector.                                              *)

\* the classified field at position k (1-based) of final_res is a mutable Account
Qualifies(final_res, k) ==
    final_res[k].mu = "mut" /\ final_res[k].acct.kind.tag = "Account"

\* how often the pair (i, j) of context c has been reported
Reported(c, i, j) ==
    Cardinality({n \in DOMAIN findings : findings[n] = [ctx |-> c, i |-> i, j |-> j]})

\* the findings of context c whose first field holds type t
ReportedOfType(c, t) ==
    {n \in DOMAIN findings :
        /\ findings[n].ctx = c
        /\ final_results[c][findings[n].i + 1].acct.kind.sym = t}

\* C1: for every context the detector has checked, the pair of classified fields
\* (i, j), i < j, is reported exactly once if both are tagged "mut" and both are
\* Account(T) for the same T, and never otherwise (nor as (j, i) or (i, i)); so
\* k mutable Account(T) fields give k(k-1)/2 findings, and every finding is one
\* of these pairs.
C1_PairsReportedOnce ==
    \A c \in DOMAIN final_results :
        LET final_res == final_results[c]
            len == Len(final_res)
        IN  /\ \A i, j \in 0..(len - 1) :
                  Reported(c, i, j) =
                      IF /\ i < j
                         /\ Qualifies(final_res, i + 1)
                         /\ Qualifies(final_res, j + 1)
                         /\ final_res[i + 1].acct.kind.sym = final_res[j + 1].acct.kind.sym
                      THEN 1 ELSE 0
            /\ \A t \in {"Vault", "Pool"} :
                  LET k == Cardinality({f \in DOMAIN final_res :
                                /\ Qualifies(final_res, f)
                                /\ final_res[f].acct.kind.sym = t})
                  IN  2 * Cardinality(ReportedOfType(c, t)) = k * (k - 1)
            /\ \A n \in DOMAIN findings :
                  findings[n].ctx = c =>
                      /\ findings[n].i \in 0..(len - 1)
                      /\ findings[n].j \in 0..(len - 1)

\* C1 witness: a checked context with three mutable Account<Vault> fields and
\* the three findings for them
C1_Witness ==
    /\ dpc = "done"
    /\ Len(final_results) = 1
    /\ Len(final_results[1]) = 3
    /\ \A k \in 1..3 : /\ Qualifies(final_results[1], k)
                       /\ final_results[1][k].acct.kind.sym = "Vault"
    /\ Len(findings) = 3

\* the tag of the (first) fact for declared field d of the struct called name
DeclaredTag(name, d) == Mu(Muts(metas, name), d)

\* C2: every classified field carries the tag of the fact recorded for its index
\* in the struct's declared field list (fields are named by that index).
C2_TagByDeclaredIndex ==
    \A c \in DOMAIN final_results :
        \A k \in DOMAIN final_results[c] :
            final_results[c][k].mu =
                DeclaredTag(contexts[c].name, final_results[c][k].acct.name)

----------------------------------------------------------------------------
(* Callgraph Builder (src/analysis/callgraph.rs).                          *)

Instances == {"f", "g", "h"}

MaxBodyBlocks == 2

\* a block's terminator, as far as compute_instances looks:
\*   a Call whose callee has type FnDef and resolves to the instance `target`,
\*   a Call whose callee has type FnDef and does not resolve (resolve is Err),
\*   a Call whose callee is not a FnDef (a function pointer),
\*   a Call whose callee has no type (func.ty is Err),
\*   any other terminator
CallTo(i)      == [kind |-> "Call", fn_ty |-> "FnDef", resolve |-> i]
CallUnresolved == [kind |-> "Call", fn_ty |-> "FnDef", resolve |-> "Err"]
CallFnPtr      == [kind |-> "Call", fn_ty |-> "FnPtr", resolve |-> "Err"]
CallNoTy       == [kind |-> "Call", fn_ty |-> "Err", resolve |-> "Err"]
Return         == [kind |-> "Return", fn_ty |-> "Err", resolve |-> "Err"]

Terminators ==
    {CallTo(i) : i \in Instances} \cup {CallUnresolved, CallFnPtr, CallNoTy, Return}

\* Instance::body(): None, or Some(body) with the terminators of its blocks
NoBody == [some |-> FALSE, blocks |-> <<>>]
Bodies == {NoBody} \cup {[some |-> TRUE, blocks |-> b] : b \in SeqsUpTo(Terminators, MaxBodyBlocks)}

\* sequences over S without repetition
Orderings(S) ==
    {q \in SeqsUpTo(S, Cardinality(S)) : \A a, b \in DOMAIN q : a # b => q[a] # q[b]}

\* lines 27-29 on a Call terminator: "panic" where an unwrap fails, "skip"
\* where `if let FnDef` does not match, else the resolved instance
Callee(t) ==
    IF t.fn_ty = "Err" THEN "panic"
    ELSE IF t.fn_ty # "FnDef" THEN "skip"
    ELSE IF t.resolve = "Err" THEN "panic"
    ELSE t.resolve

\* HashSet::insert's result, line 30: true iff the value was not present
InsertIsNewAlways(nodes, instance) == TRUE

\* the test of line 30 turned round
InsertIsNewIfPresent(nodes, instance) == instance \in nodes

InsertIsNew(nodes, instance) == instance \notin nodes

\* HashSet::insert's effect, line 30
InsertDropped(nodes, instance) == nodes

Insert(nodes, instance) == nodes \cup {instance}

\* lines 18-19: the worklist and the visited set start from the seeds
CgStart ==
    /\ cpc = "start"
    /\ worklist' = local_instances
    /\ cg_nodes' = Range(local_instances)
    /\ cpc' = "loop"
    /\ UNCHANGED <<local_instances, curr, curr_body, blk, cg_calls, cg_pops, dvars, gvars>>

\* lines 20-21: pop an instance and fetch its body; every instance is asked for
\* its body when it is popped, and the answer is drawn here
Pop ==
    /\ cpc = "loop"
    /\ worklist # <<>>
    /\ LET c == worklist[Len(worklist)]
       IN  /\ curr' = c
           /\ cg_pops' = [cg_pops EXCEPT ![c] = @ + 1]
    /\ worklist' = SubSeq(worklist, 1, Len(worklist) - 1)
    /\ \E body \in Bodies :
          IF ~body.some
          THEN UNCHANGED <<curr_body, blk, cpc>>
          ELSE /\ curr_body' = body.blocks
               /\ blk' = 1
               /\ cpc' = "scan"
    /\ UNCHANGED <<local_instances, cg_nodes, cg_calls, dvars, gvars>>

\* lines 22-35: one iteration of `for block in &body.blocks`
ScanBlock ==
    /\ cpc = "scan"
    /\ blk <= Len(curr_body)
    /\ LET t == curr_body[blk]
       IN  IF t.kind # "Call" \/ Callee(t) = "skip"
           THEN /\ blk' = blk + 1
                /\ UNCHANGED <<worklist, cg_nodes, cg_calls, cpc>>
           ELSE IF Callee(t) = "panic"
           THEN /\ cpc' = "panicked"
                /\ UNCHANGED <<worklist, cg_nodes, cg_calls, blk>>
           ELSE /\ cg_calls' = cg_calls \cup {<<curr, Callee(t)>>}
                /\ cg_nodes' = Insert(cg_nodes, Callee(t))
                /\ worklist' = IF InsertIsNew(cg_nodes, Callee(t))
                               THEN Append(worklist, Callee(t)) ELSE worklist
                /\ blk' = blk + 1
                /\ UNCHANGED cpc
    /\ UNCHANGED <<local_instances, curr, curr_body, cg_pops, dvars, gvars>>

\* the loop over the blocks is over: back to `while let Some(curr) = worklist.pop()`
ScanEnd ==
    /\ cpc = "scan"
    /\ blk > Len(curr_body)
    /\ cpc' = "loop"
    /\ curr_body' = <<>>
    /\ blk' = 0
    /\ UNCHANGED <<local_instances, worklist, cg_nodes, curr, cg_calls, cg_pops, dvars, gvars>>

\* line 39: the worklist is empty, return nodes
CgReturn ==
    /\ cpc = "loop"
    /\ worklist = <<>>
    /\ cpc' = "done"
    /\ UNCHANGED <<local_instances, worklist, cg_nodes, curr, curr_body, blk, cg_calls,
                   cg_pops, dvars, gvars>>

CallgraphInit ==
    /\ local_instances \in Orderings(Instances)
    /\ worklist = <<>>
    /\ cg_nodes = {}
    /\ curr = "none"
    /\ curr_body = <<>>
    /\ blk = 0
    /\ cg_calls = {}
    /\ cg_pops = [i \in Instances |-> 0]
    /\ cpc = "start"
    /\ DetectorIdle
    /\ GraphIdle

CallgraphNext ==
    \/ CgStart
    \/ Pop
    \/ ScanBlock
    \/ ScanEnd
    \/ CgReturn

CallgraphSpec == CallgraphInit /\ [][CallgraphNext]_vars

\* the loop runs as long as it can take a step
CallgraphFairSpec == CallgraphSpec /\ WF_vars(CallgraphNext)

----------------------------------------------------------------------------
(* Claims about the callgraph.                                             *)

RECURSIVE Closure(_, _)
\* the least set that contains S and is closed under the relation calls
Closure(S, calls) ==
    LET T == S \cup {e[2] : e \in {c \in calls : c[1] \in S}}
    IN  IF T = S THEN S ELSE Closure(T, calls)

\* C5: the set compute_instances returns is the least set that contains the
\* seeds and is closed under the resolved calls of the bodies it fetched, for
\* every order of the seeds and every body.
C5_ReturnsReachableSet ==
    cpc = "done" => cg_nodes = Closure(Range(local_instances), cg_calls)

\* C5 witness: h is no seed, has no body (it was popped and scanned nothing)
\* and is in the result because g, reached from the seed f, calls it
C5_Witness ==
    /\ cpc = "done"
    /\ local_instances = <<"f">>
    /\ cg_calls = {<<"f", "g">>, <<"g", "h">>, <<"g", "f">>}
    /\ cg_nodes = {"f", "g", "h"}

\* C6: the worklist loop always halts, no instance is popped twice, and when
\* it returns every instance of the result has been popped exactly once.
C6_Terminates ==
    /\ <>(cpc \in {"done", "panicked"})
    /\ [](\A i \in Instances : cg_pops[i] <= 1)
    /\ [](cpc = "done" => cg_nodes = {i \in Instances : cg_pops[i] = 1})

\* C6 witness: a call cycle f -> g -> f with self-recursion in f, returned from
C6_Witness ==
    /\ cpc = "done"
    /\ {<<"f", "g">>, <<"g", "f">>, <<"f", "f">>} \subseteq cg_calls

\* C7: compute_instances never aborts: a call that cannot be resolved, or whose
\* callee has no type, is skipped.
C7_NeverAborts == cpc # "panicked"

----------------------------------------------------------------------------
(* Graph Core: DirectedGraph (src/analysis/graph.rs).                      *)

\* the node ids, in the order in which a caller first names them; NodeId is
\* opaque to the code (Eq + Hash + Clone)
NodeOrder == <<"A", "B", "C", "D">>

NodeIds == Range(NodeOrder)

NodeIdx(n) == CHOOSE k \in DOMAIN NodeOrder : NodeOrder[k] = n

Max(a, b) == IF a >= b THEN a ELSE b

Min(a, b) == IF a <= b THEN a ELSE b

\* DirectedGraph::new; a key that is absent from `successors` or `predecessors`
\* reads as the empty list (lines 37-46), and so it is kept here
NewGraph ==
    [nodes |-> {},
     successors |-> [n \in NodeIds |-> <<>>],
     predecessors |-> [n \in NodeIds |-> <<>>]]

\* DirectedGraph::add_node
AddNode(g, node) == [g EXCEPT !.nodes = @ \cup {node}]

\* DirectedGraph::add_edge
AddEdge(g, from, to) ==
    [g EXCEPT !.successors[from] = Append(@, to),
              !.predecessors[to] = Append(@, from)]

\* DirectedGraph::successors
Successors(g, node) == g.successors[node]

\* DirectedGraph::predecessors
Predecessors(g, node) == g.predecessors[node]

----------------------------------------------------------------------------
(* The graphs the algorithms are run on.                                   *)

MaxEdges == 4

\* the first k node ids
FirstIds(k) == {NodeOrder[i] : i \in 1..Min(k, Len(NodeOrder))}

RECURSIVE FirstUseFrom(_, _, _)
\* from call k on, each call names at most the id after the last one used so far
FirstUseFrom(es, k, used) ==
    IF k > Len(es) THEN TRUE
    ELSE LET from == NodeIdx(es[k][1])
             to   == NodeIdx(es[k][2])
         IN  /\ from <= used + 1
             /\ to <= Max(used, from) + 1
             /\ FirstUseFrom(es, k + 1, Max(used, Max(from, to)))

\* NodeId is opaque to the code, so the ids are given in the order in which
\* the add_edge calls first name them, after the first `base` ids
FirstUseOrder(es, base) == FirstUseFrom(es, 1, base)

\* the lists of k add_edge calls
EdgeLists(k) == [1..k -> NodeIds \X NodeIds]

RECURSIVE AddNodes(_, _)
AddNodes(g, ns) ==
    IF ns = {} THEN g
    ELSE LET n == CHOOSE x \in ns : TRUE IN AddNodes(AddNode(g, n), ns \ {n})

RECURSIVE AddEdges(_, _, _)
AddEdges(g, es, k) ==
    IF k > Len(es) THEN g
    ELSE AddEdges(AddEdge(g, es[k][1], es[k][2]), es, k + 1)

\* the node ids a list of edges names
Named(es) == {es[k][1] : k \in DOMAIN es} \cup {es[k][2] : k \in DOMAIN es}

\* the graph a caller builds as the tests do: add_node for every node in ns,
\* then add_edge for every edge of es in order
BuildGraph(ns, es) == AddEdges(AddNodes(NewGraph, ns), es, 1)

----------------------------------------------------------------------------
(* Dominators (src/analysis/graph.rs).                                     *)

\* usize::MAX, the position of a node that is not in reverse_postorder: above
\* every position
USIZE_MAX == 2147483647

RECURSIVE PostorderDfs(_, _, _)
RECURSIVE PostorderDfsEach(_, _, _, _)
\* Dominators::postorder_dfs; st is [visited, postorder]
PostorderDfs(g, node, st) ==
    IF node \in st.visited THEN st
    ELSE LET st1 == PostorderDfsEach(g, Successors(g, node), 1,
                                     [st EXCEPT !.visited = @ \cup {node}])
         IN  [st1 EXCEPT !.postorder = Append(@, node)]

\* its loop `for successor in graph.successors(node)`, from element k on
PostorderDfsEach(g, list, k, st) ==
    IF k > Len(list) THEN st
    ELSE PostorderDfsEach(g, list, k + 1, PostorderDfs(g, list[k], st))

Reverse(q) == [k \in DOMAIN q |-> q[Len(q) + 1 - k]]

\* Dominators::reverse_postorder
ReversePostorder(g, e) ==
    Reverse(PostorderDfs(g, e, [visited |-> {}, postorder |-> <<>>]).postorder)

\* `positions` of intersect (0-based), usize::MAX for a node that has none
DomPosition(rpo, n) ==
    IF \E k \in DOMAIN rpo : rpo[k] = n
    THEN (CHOOSE k \in DOMAIN rpo : rpo[k] = n) - 1
    ELSE USIZE_MAX

RECURSIVE DomClimb(_, _, _, _, _)
\* one inner loop of intersect: `while pos_finger > other { finger = idom }`;
\* "diverge" if the loop comes back to a finger it has left
DomClimb(idoms, rpo, finger, other, seen) ==
    IF ~(DomPosition(rpo, finger) > other) THEN finger
    ELSE IF finger \notin DOMAIN idoms THEN finger
    ELSE IF finger \in seen THEN "diverge"
    ELSE DomClimb(idoms, rpo, idoms[finger], other, seen \cup {finger})

RECURSIVE DomIntersectFrom(_, _, _, _, _)
\* the loop `while finger1 != finger2` of intersect; "diverge" if an iteration
\* starts from fingers an earlier one started from
DomIntersectFrom(idoms, rpo, finger1, finger2, seen) ==
    IF finger1 = finger2 THEN finger1
    ELSE IF <<finger1, finger2>> \in seen THEN "diverge"
    ELSE LET f1 == DomClimb(idoms, rpo, finger1, DomPosition(rpo, finger2), {})
         IN  IF f1 = "diverge" THEN "diverge"
             ELSE LET f2 == DomClimb(idoms, rpo, finger2, DomPosition(rpo, f1), {})
                  IN  IF f2 = "diverge" THEN "diverge"
                      ELSE DomIntersectFrom(idoms, rpo, f1, f2,
                                            seen \cup {<<finger1, finger2>>})

\* an intersect that keeps the first finger
DomIntersectKeepsFirst(idoms, rpo, finger1, finger2) == finger1

\* Dominators::intersect
DomIntersect(idoms, rpo, finger1, finger2) ==
    DomIntersectFrom(idoms, rpo, finger1, finger2, {})

\* the first predecessor, processed or not
FirstPredecessor(idoms, preds) == IF preds = <<>> THEN "none" ELSE preds[1]

\* lines 95-101: the first predecessor that has an immediate dominator
FirstProcessed(idoms, preds) ==
    IF \E k \in DOMAIN preds : preds[k] \in DOMAIN idoms
    THEN preds[CHOOSE k \in DOMAIN preds :
                  /\ preds[k] \in DOMAIN idoms
                  /\ \A l \in 1..(k - 1) : preds[l] \notin DOMAIN idoms]
    ELSE "none"

RECURSIVE IntersectPreds(_, _, _, _, _)
\* lines 105-114: fold intersect over the processed predecessors, from element k
IntersectPreds(idoms, rpo, preds, k, idom) ==
    IF k > Len(preds) \/ idom = "diverge" THEN idom
    ELSE IF preds[k] # idom /\ preds[k] \in DOMAIN idoms
         THEN IntersectPreds(idoms, rpo, preds, k + 1,
                             DomIntersect(idoms, rpo, idom, preds[k]))
         ELSE IntersectPreds(idoms, rpo, preds, k + 1, idom)

\* a candidate that is the first processed predecessor, never intersected
NewIdomFirstProcessed(g, idoms, rpo, e, node) ==
    IF node = e THEN "none"
    ELSE FirstProcessed(idoms, Predecessors(g, node))

\* lines 85-114: the candidate for node: "none" where the loop body does
\* `continue` or finds no processed predecessor
NewIdom(g, idoms, rpo, e, node) ==
    IF node = e THEN "none"
    ELSE IF Predecessors(g, node) = <<>> THEN "none"
    ELSE LET first == FirstProcessed(idoms, Predecessors(g, node))
         IN  IF first = "none" THEN "none"
             ELSE IntersectPreds(idoms, rpo, Predecessors(g, node), 1, first)

\* lines 70-79
DomStart ==
    /\ dom_pc = "start"
    /\ reverse_postorder' = ReversePostorder(graph, entry)
    /\ immediate_dominators' = (entry :> entry)
    /\ changed' = TRUE
    /\ dom_pc' = "while"
    /\ UNCHANGED <<graph, entry, dom_i, dom_passes, pdvars, dvars, cvars, svars>>

\* lines 80-81 and 125: `while changed { changed = false; ...`
DomWhile ==
    /\ dom_pc = "while"
    /\ IF changed
       THEN /\ changed' = FALSE
            /\ dom_i' = 1
            /\ dom_pc' = "for"
            /\ dom_passes' = dom_passes + 1
       ELSE /\ dom_pc' = "done"
            /\ UNCHANGED <<changed, dom_i, dom_passes>>
    /\ UNCHANGED <<graph, entry, reverse_postorder, immediate_dominators, pdvars, dvars, cvars, svars>>

\* lines 84-122: one iteration of `for node in &reverse_postorder`
DomNode ==
    /\ dom_pc = "for"
    /\ dom_i <= Len(reverse_postorder)
    /\ LET node == reverse_postorder[dom_i]
           idom == NewIdom(graph, immediate_dominators, reverse_postorder, entry, node)
       IN  IF idom = "diverge"
           THEN /\ dom_pc' = "diverged"
                /\ UNCHANGED <<immediate_dominators, changed, dom_i>>
           ELSE /\ dom_i' = dom_i + 1
                /\ dom_pc' = "for"
                /\ IF idom # "none"
                      /\ (node \notin DOMAIN immediate_dominators
                          \/ immediate_dominators[node] # idom)
                   THEN /\ immediate_dominators' =
                              [n \in DOMAIN immediate_dominators \cup {node} |->
                                  IF n = node THEN idom ELSE immediate_dominators[n]]
                        /\ changed' = TRUE
                   ELSE UNCHANGED <<immediate_dominators, changed>>
    /\ UNCHANGED <<graph, entry, reverse_postorder, dom_passes, pdvars, dvars, cvars, svars>>

\* line 122-123: the for loop is over
DomForEnd ==
    /\ dom_pc = "for"
    /\ dom_i > Len(reverse_postorder)
    /\ dom_pc' = "while"
    /\ UNCHANGED <<graph, entry, reverse_postorder, immediate_dominators, changed, dom_i,
                   dom_passes, pdvars, dvars, cvars, svars>>

\* a walk that looks at the node's own immediate dominator only
DominatesOneStep(idoms, dominator, current) ==
    current \in DOMAIN idoms /\ idoms[current] = dominator

\* the loop of Dominators::dominates, on the map as it is
RECURSIVE DominatesFrom(_, _, _)
DominatesFrom(idoms, dominator, current) ==
    IF current \notin DOMAIN idoms THEN FALSE
    ELSE IF idoms[current] = dominator THEN TRUE
    ELSE IF idoms[current] = current THEN FALSE
    ELSE DominatesFrom(idoms, dominator, idoms[current])

\* Dominators::dominates
Dominates(idoms, dominator, node) ==
    dominator = node \/ DominatesFrom(idoms, dominator, node)

\* Dominators::strictly_dominates
StrictlyDominates(idoms, dominator, node) ==
    dominator # node /\ Dominates(idoms, dominator, node)

\* the loop of Dominators::dominators_of
RECURSIVE DominatorsOfFrom(_, _)
DominatorsOfFrom(idoms, current) ==
    {current} \cup
    (IF current \in DOMAIN idoms /\ idoms[current] # current
     THEN DominatorsOfFrom(idoms, idoms[current]) ELSE {})

DominatorsOf(idoms, node) == DominatorsOfFrom(idoms, node)

\* Dominators::immediate_dominator
ImmediateDominator(idoms, node) ==
    IF node \notin DOMAIN idoms THEN "none"
    ELSE IF idoms[node] = node THEN "none"
    ELSE idoms[node]

\* the graphs Dominators::compute is run on. NodeId is opaque to the code, so
\* the entry is given the first id and the edges name the others in the order
\* of their first use
DominatorsInit ==
    /\ entry = NodeOrder[1]
    /\ \E k \in 0..MaxEdges :
          \E es \in EdgeLists(k) :
              /\ FirstUseOrder(es, 1)
              /\ graph = BuildGraph(Named(es) \cup {NodeOrder[1]}, es)
    /\ reverse_postorder = <<>>
    /\ immediate_dominators = <<>>
    /\ changed = FALSE
    /\ dom_i = 0
    /\ dom_pc = "start"
    /\ dom_passes = 0
    /\ PostDominatorsIdle
    /\ DetectorIdle
    /\ CallgraphIdle
    /\ SetDominatorsIdle

DominatorsNext ==
    \/ DomStart
    \/ DomWhile
    \/ DomNode
    \/ DomForEnd

DominatorsSpec == DominatorsInit /\ [][DominatorsNext]_vars

----------------------------------------------------------------------------
(* Dominators: the definitions the result is compared with.                *)

RECURSIVE ReachAvoiding(_, _, _)
\* the nodes reached from the set `seen` along successor edges without ever
\* entering the node `avoid`
ReachAvoiding(g, seen, avoid) ==
    LET next == {m \in NodeIds \ {avoid} :
                    \E n \in seen : m \in Range(Successors(g, n))}
    IN  IF next \subseteq seen THEN seen
        ELSE ReachAvoiding(g, seen \cup next, avoid)

\* the nodes reachable from e
Reachable(g, e) == ReachAvoiding(g, {e}, "none")

\* d dominates n iff every path from e to n passes through d
TrueDominates(g, e, d, n) ==
    d = n \/ d = e \/ n \notin ReachAvoiding(g, {e}, d)

TrueDominators(g, e, n) == {d \in NodeIds : TrueDominates(g, e, d, n)}

TrueStrictDominators(g, e, n) == TrueDominators(g, e, n) \ {n}

\* the strict dominator of n that every other strict dominator of n dominates
TrueIdom(g, e, n) ==
    IF \E d \in TrueStrictDominators(g, e, n) :
          \A x \in TrueStrictDominators(g, e, n) : TrueDominates(g, e, x, d)
    THEN CHOOSE d \in TrueStrictDominators(g, e, n) :
            \A x \in TrueStrictDominators(g, e, n) : TrueDominates(g, e, x, d)
    ELSE "none"

\* the result of compute agrees with the definition on every reachable node
DomResultIsTrue ==
    \A n \in Reachable(graph, entry) :
        /\ ImmediateDominator(immediate_dominators, n) = TrueIdom(graph, entry, n)
        /\ DominatorsOf(immediate_dominators, n) = TrueDominators(graph, entry, n)
        /\ \A d \in NodeIds :
              Dominates(immediate_dominators, d, n) = TrueDominates(graph, entry, d, n)

\* C4: Dominators::compute returns (no call of intersect runs forever, and
\* the body of `while changed` is entered at most once more than there are
\* nodes to process), and then every node reachable from entry has its true
\* immediate dominator (the strict dominator that every other strict dominator
\* dominates), dominators_of is the set of its true dominators and dominates
\* answers as the definition does, for every graph of the bound, loops
\* included, and every order of the add_edge calls.
C4_TrueImmediateDominators ==
    /\ dom_pc # "diverged"
    /\ dom_passes <= Len(reverse_postorder) + 1
    /\ dom_pc = "done" => DomResultIsTrue

Diamond ==
    BuildGraph({"A", "B", "C", "D"},
               <<<<"A", "B">>, <<"A", "C">>, <<"B", "D">>, <<"C", "D">>>>)

\* compute has returned on the diamond: D's immediate dominator is A
C4_Witness ==
    /\ dom_pc = "done"
    /\ graph = Diamond
    /\ entry = "A"
    /\ ImmediateDominator(immediate_dominators, "D") = "A"
    /\ DominatorsOf(immediate_dominators, "D") = {"A", "D"}

----------------------------------------------------------------------------
(* PostDominators (src/analysis/graph.rs).                                 *)

\* ExtNode::Real(Some(n)), ExtNode::Real(None), ExtNode::Fake
RealSome(n) == <<"Real", n>>

RealNone == <<"Real", "none">>

Fake == <<"Fake", "none">>

\* stands for a call that does not return
Diverges == <<"Diverges", "none">>

IsRealSome(x) == x[1] = "Real" /\ x[2] # "none"

\* WithExitNodes::exit_nodes for DirectedGraph: the registered nodes that
\* have no successor, in the iteration order of the HashSet `nodes`, which is
\* any order
ExitNodes(g) ==
    {q \in Orderings({n \in g.nodes : Successors(g, n) = <<>>}) :
        Len(q) = Cardinality({n \in g.nodes : Successors(g, n) = <<>>})}

RECURSIVE PostdomPostorderDfs(_, _, _)
RECURSIVE PostdomPostorderDfsEach(_, _, _, _)
\* PostDominators::postdom_postorder_dfs; st is [visited, postorder]
PostdomPostorderDfs(g, node, st) ==
    IF node \in st.visited THEN st
    ELSE LET st1 == PostdomPostorderDfsEach(g, Predecessors(g, node), 1,
                                            [st EXCEPT !.visited = @ \cup {node}])
         IN  [st1 EXCEPT !.postorder = Append(@, node)]

\* a loop that calls postdom_postorder_dfs on the elements of list from k on:
\* `for predecessor in graph.predecessors(node)`, `for exit_node in exit_nodes`
PostdomPostorderDfsEach(g, list, k, st) ==
    IF k > Len(list) THEN st
    ELSE PostdomPostorderDfsEach(g, list, k + 1, PostdomPostorderDfs(g, list[k], st))

\* PostDominators::postdom_reverse_postorder
PostdomReversePostorder(g, exits) ==
    Reverse(PostdomPostorderDfsEach(g, exits, 1,
                                    [visited |-> {}, postorder |-> <<>>]).postorder)

\* lines 742-752: the position of a node of reverse_postorder counted from its
\* end (0-based), and reverse_postorder.len() for every exit node
PostorderPositions(rpo, exits) ==
    [n \in Range(rpo) \cup Range(exits) |->
        IF n \in Range(exits) THEN Len(rpo)
        ELSE Len(rpo) - (CHOOSE k \in DOMAIN rpo : rpo[k] = n)]

\* an initial map without lines 763-766: no exit is given itself
InitialUnprocessed(g, exits) == [n \in g.nodes |-> RealNone]

\* lines 755-766: Real(None) for every registered node, itself for every exit
InitialPostDominators(g, exits) ==
    [n \in g.nodes |-> IF n \in Range(exits) THEN RealSome(n) ELSE RealNone]

\* immediate_post_dominators.get(n).cloned().unwrap_or(ExtNode::Real(None))
IpdomGet(ipdoms, n) == IF n \in DOMAIN ipdoms THEN ipdoms[n] ELSE RealNone

\* postorder_positions.get(n).copied().unwrap_or(0)
PositionGet(pos, n) == IF n \in DOMAIN pos THEN pos[n] ELSE 0

RECURSIVE PdWalk(_, _, _)
\* an inner loop of intersect whose condition holds: pos1 and pos2 are not
\* assigned in the loop, so it runs until the finger's entry is Real(None) or
\* Fake; "diverges" if it comes back to a finger it has left
PdWalk(ipdoms, finger, seen) ==
    IF ~IsRealSome(IpdomGet(ipdoms, finger)) THEN finger
    ELSE IF finger \in seen THEN "diverges"
    ELSE PdWalk(ipdoms, IpdomGet(ipdoms, finger)[2], seen \cup {finger})

RECURSIVE PdIntersectFrom(_, _, _, _, _, _)
\* the loop `while finger1 != finger2` of intersect; Diverges if an iteration
\* starts from fingers an earlier one started from
PdIntersectFrom(pos, ipdoms, exits, finger1, finger2, seen) ==
    IF finger1 = finger2 THEN RealSome(finger1)
    ELSE IF finger1 \in Range(exits) /\ finger2 \in Range(exits) THEN Fake
    ELSE IF <<finger1, finger2>> \in seen THEN Diverges
    ELSE LET pos1 == PositionGet(pos, finger1)
             pos2 == PositionGet(pos, finger2)
             f1 == IF pos1 < pos2 THEN PdWalk(ipdoms, finger1, {}) ELSE finger1
         IN  IF f1 = "diverges" THEN Diverges
             ELSE LET f2 == IF pos2 < pos1 THEN PdWalk(ipdoms, finger2, {})
                            ELSE finger2
                  IN  IF f2 = "diverges" THEN Diverges
                      ELSE PdIntersectFrom(pos, ipdoms, exits, f1, f2,
                                           seen \cup {<<finger1, finger2>>})

\* an intersect without the sentinel: two exits give the first finger
PdIntersectNoFake(pos, ipdoms, exits, finger1, finger2) == RealSome(finger1)

\* PostDominators::intersect
PdIntersect(pos, ipdoms, exits, finger1, finger2) ==
    PdIntersectFrom(pos, ipdoms, exits, finger1, finger2, {})

\* a loop body that lets a later processed successor replace the sentinel
NextIpdomFakeReplaced(pos, ipdoms, exits, new_ipdom, succ) ==
    LET of_succ == IpdomGet(ipdoms, succ)
    IN  IF IsRealSome(of_succ)
        THEN IF IsRealSome(new_ipdom)
             THEN PdIntersect(pos, ipdoms, exits, new_ipdom[2], succ)
             ELSE RealSome(succ)
        ELSE IF of_succ = RealNone THEN new_ipdom
        ELSE Fake

\* lines 787-810: the body of `for succ in successors`: new_ipdom after succ
NextIpdom(pos, ipdoms, exits, new_ipdom, succ) ==
    LET of_succ == IpdomGet(ipdoms, succ)
    IN  IF IsRealSome(of_succ)
        THEN IF IsRealSome(new_ipdom)
             THEN PdIntersect(pos, ipdoms, exits, new_ipdom[2], succ)
             ELSE IF new_ipdom = RealNone THEN RealSome(succ)
             ELSE Fake
        ELSE IF of_succ = RealNone THEN new_ipdom
        ELSE Fake

RECURSIVE NewIpdom(_, _, _, _, _, _)
\* lines 784-811: the loop `for succ in successors` from element k on, with
\* new_ipdom as it is so far
NewIpdom(pos, ipdoms, exits, succs, k, new_ipdom) ==
    IF k > Len(succs) \/ new_ipdom = Diverges THEN new_ipdom
    ELSE NewIpdom(pos, ipdoms, exits, succs, k + 1,
                  NextIpdom(pos, ipdoms, exits, new_ipdom, succs[k]))

\* lines 737-770
PdStart ==
    /\ pd_pc = "start"
    /\ \E exits \in ExitNodes(graph) :
          /\ exit_nodes' = exits
          /\ pd_reverse_postorder' = PostdomReversePostorder(graph, exits)
          /\ postorder_positions' =
                PostorderPositions(PostdomReversePostorder(graph, exits), exits)
          /\ immediate_post_dominators' = InitialPostDominators(graph, exits)
    /\ pd_changed' = TRUE
    /\ pd_pc' = "while"
    /\ UNCHANGED <<graph, pd_i, domvars, dvars, cvars, svars>>

\* lines 770-771 and 824: `while changed { changed = false; ...`
PdWhile ==
    /\ pd_pc = "while"
    /\ IF pd_changed
       THEN /\ pd_changed' = FALSE
            /\ pd_i' = 1
            /\ pd_pc' = "for"
       ELSE /\ pd_pc' = "done"
            /\ UNCHANGED <<pd_changed, pd_i>>
    /\ UNCHANGED <<graph, exit_nodes, pd_reverse_postorder, postorder_positions,
                   immediate_post_dominators, domvars, dvars, cvars, svars>>

\* lines 774-822: one iteration of `for node in &reverse_postorder`
PdNode ==
    /\ pd_pc = "for"
    /\ pd_i <= Len(pd_reverse_postorder)
    /\ LET node == pd_reverse_postorder[pd_i]
           skip == node \in Range(exit_nodes) \/ Successors(graph, node) = <<>>
           new_ipdom == NewIpdom(postorder_positions, immediate_post_dominators,
                                 exit_nodes, Successors(graph, node), 1, RealNone)
       IN  IF ~skip /\ new_ipdom = Diverges
           THEN /\ pd_pc' = "diverged"
                /\ UNCHANGED <<immediate_post_dominators, pd_changed, pd_i>>
           ELSE /\ pd_i' = pd_i + 1
                /\ pd_pc' = "for"
                /\ IF ~skip /\ new_ipdom # IpdomGet(immediate_post_dominators, node)
                   THEN /\ immediate_post_dominators' =
                              [n \in DOMAIN immediate_post_dominators \cup {node} |->
                                  IF n = node THEN new_ipdom
                                  ELSE immediate_post_dominators[n]]
                        /\ pd_changed' = TRUE
                   ELSE UNCHANGED <<immediate_post_dominators, pd_changed>>
    /\ UNCHANGED <<graph, exit_nodes, pd_reverse_postorder, postorder_positions,
                   domvars, dvars, cvars, svars>>

\* lines 823-824: the for loop is over
PdForEnd ==
    /\ pd_pc = "for"
    /\ pd_i > Len(pd_reverse_postorder)
    /\ pd_pc' = "while"
    /\ UNCHANGED <<graph, exit_nodes, pd_reverse_postorder, postorder_positions,
                   immediate_post_dominators, pd_changed, pd_i, domvars, dvars, cvars, svars>>

\* the graphs PostDominators::compute is run on: every node an edge names is
\* registered, and one more node may be registered that no edge names
PostDominatorsInit ==
    /\ \E k \in 0..MaxEdges :
          \E es \in EdgeLists(k) :
              /\ FirstUseOrder(es, 0)
              /\ \E ns \in {Named(es), FirstIds(Cardinality(Named(es)) + 1)} :
                    graph = BuildGraph(ns, es)
    /\ exit_nodes = <<>>
    /\ pd_reverse_postorder = <<>>
    /\ postorder_positions = <<>>
    /\ immediate_post_dominators = <<>>
    /\ pd_changed = FALSE
    /\ pd_i = 0
    /\ pd_pc = "start"
    /\ DominatorsIdle
    /\ DetectorIdle
    /\ CallgraphIdle
    /\ SetDominatorsIdle

PostDominatorsNext ==
    \/ PdStart
    \/ PdWhile
    \/ PdNode
    \/ PdForEnd

PostDominatorsSpec == PostDominatorsInit /\ [][PostDominatorsNext]_vars

----------------------------------------------------------------------------
(* PostDominators: the queries, on the map compute has built.              *)

\* PostDominators::immediate_post_dominator
ImmediatePostDominator(ipdoms, node) == IpdomGet(ipdoms, node)

RECURSIVE IsPostDominatedByFrom(_, _, _)
\* the loop of is_post_dominated_by
IsPostDominatedByFrom(ipdoms, current, dom) ==
    LET ipdom == ImmediatePostDominator(ipdoms, current)
    IN  IF ~IsRealSome(ipdom) THEN FALSE
        ELSE IF ipdom[2] = dom THEN TRUE
        ELSE IF ipdom[2] = current THEN FALSE
        ELSE IsPostDominatedByFrom(ipdoms, ipdom[2], dom)

\* PostDominators::is_post_dominated_by
IsPostDominatedBy(ipdoms, node, dom) ==
    node = dom \/ IsPostDominatedByFrom(ipdoms, node, dom)

RECURSIVE PostDominatorsOfFrom(_, _)
\* the loop of post_dominators_of
PostDominatorsOfFrom(ipdoms, current) ==
    LET ipdom == ImmediatePostDominator(ipdoms, current)
    IN  IF IsRealSome(ipdom) /\ ipdom[2] # current
        THEN <<current>> \o PostDominatorsOfFrom(ipdoms, ipdom[2])
        ELSE <<current>>

\* PostDominators::post_dominators_of
PostDominatorsOf(ipdoms, node) == PostDominatorsOfFrom(ipdoms, node)

\* PostDominators::nearest_common_post_dominator: the loops run over both
\* lists from their ends, so the element of pd1 returned is the last one that
\* occurs in pd2; "none" for None
NearestCommonPostDominator(ipdoms, node1, node2) ==
    IF node1 = node2 THEN node1
    ELSE LET pd1 == PostDominatorsOf(ipdoms, node1)
             pd2 == PostDominatorsOf(ipdoms, node2)
             common == {k \in DOMAIN pd1 : pd1[k] \in Range(pd2)}
         IN  IF common = {} THEN "none"
             ELSE pd1[CHOOSE k \in common : \A l \in common : l <= k]

----------------------------------------------------------------------------
(* PostDominators: the definitions the result is compared with.            *)

\* the exits of the graph
Exits(g) == {n \in g.nodes : Successors(g, n) = <<>>}

\* n can reach an exit
ReachesExit(g, n) == ReachAvoiding(g, {n}, "none") \cap Exits(g) # {}

\* d post-dominates n iff d lies on every path from n to an exit
TruePostDominates(g, d, n) ==
    d = n \/ ReachAvoiding(g, {n}, d) \cap Exits(g) = {}

TrueStrictPostDominators(g, n) ==
    {d \in NodeIds \ {n} : TruePostDominates(g, d, n)}

\* the strict post-dominator of n nearest to n: every other one post-dominates it
TrueIpdom(g, n) ==
    IF \E d \in TrueStrictPostDominators(g, n) :
          \A x \in TrueStrictPostDominators(g, n) : TruePostDominates(g, x, d)
    THEN CHOOSE d \in TrueStrictPostDominators(g, n) :
            \A x \in TrueStrictPostDominators(g, n) : TruePostDominates(g, x, d)
    ELSE "none"

\* the graph has a single exit and every node can reach it
SingleExit(g) ==
    /\ Cardinality(Exits(g)) = 1
    /\ \A n \in g.nodes : ReachesExit(g, n)

\* the result of compute agrees with the definition on every node
PostDomResultIsTrue ==
    \A n \in graph.nodes :
        /\ ImmediatePostDominator(immediate_post_dominators, n) =
              IF n \in Exits(graph) THEN RealSome(n) ELSE RealSome(TrueIpdom(graph, n))
        /\ \A d \in graph.nodes :
              IsPostDominatedBy(immediate_post_dominators, n, d) =
                 TruePostDominates(graph, d, n)

----------------------------------------------------------------------------
(* PostDominators: the claims.                                             *)

\* C3: PostDominators::compute terminates on every finite graph and never
\* fails: it never enters a loop it cannot leave (pd_pc = "diverged" marks the
\* call of intersect that does not return).
C3_ComputeTerminates == pd_pc # "diverged"

\* C8: on a graph with a single exit that every node can reach, compute
\* returns, every non-exit node has its true immediate post-dominator, the
\* exit has itself, and is_post_dominated_by(n, d) holds exactly when d lies
\* on every path from n to the exit.
C8_SingleExitTrueIpdom ==
    SingleExit(graph) =>
        /\ pd_pc # "diverged"
        /\ pd_pc = "done" => PostDomResultIsTrue

\* the first node of a's chain, walking from a toward the exit, that lies on
\* b's chain; "none" if the chains share no node
NearestShared(ipdoms, a, b) ==
    LET pd1 == PostDominatorsOf(ipdoms, a)
        pd2 == PostDominatorsOf(ipdoms, b)
        common == {k \in DOMAIN pd1 : pd1[k] \in Range(pd2)}
    IN  IF common = {} THEN "none"
        ELSE pd1[CHOOSE k \in common : \A l \in common : k <= l]

\* C9: once compute has returned, nearest_common_post_dominator(a, b) is the
\* nearest shared node of the two chains (the first node of a's chain that
\* lies on b's), a itself when a = b, and None when the chains share no node.
C9_NearestSharedNode ==
    pd_pc = "done" =>
        \A a, b \in graph.nodes :
            NearestCommonPostDominator(immediate_post_dominators, a, b) =
                IF a = b THEN a ELSE NearestShared(immediate_post_dominators, a, b)

\* the paths from n end in exits, and no node other than n lies on all of them
NoCommonPostDominator(g, n) ==
    /\ n \notin Exits(g)
    /\ ReachesExit(g, n)
    /\ TrueStrictPostDominators(g, n) = {}

C11_FakePropagates ==
    pd_pc = "done" =>
        \A n \in NodeIds :
            (\E m \in Range(Successors(graph, n)) :
                ImmediatePostDominator(immediate_post_dominators, m) = Fake)
            => ImmediatePostDominator(immediate_post_dominators, n) = Fake

\* compute has returned, and a node has the sentinel from its second successor
\* while its first successor has an immediate post-dominator of its own
C11_Witness ==
    /\ pd_pc = "done"
    /\ \E n \in graph.nodes :
          /\ Len(Successors(graph, n)) = 2
          /\ IsRealSome(ImmediatePostDominator(immediate_post_dominators,
                                               Successors(graph, n)[1]))
          /\ ImmediatePostDominator(immediate_post_dominators,
                                    Successors(graph, n)[2]) = Fake
          /\ ImmediatePostDominator(immediate_post_dominators, n) = Fake

----------------------------------------------------------------------------
(* Dominators: further claims.                                             *)

\* C12: after compute, dominates(entry, n) holds for every node n reachable
\* from entry, dominates(a, a) holds for every node a, strictly_dominates is
\* irreflexive, and it is transitive on the nodes of each reachable node's
\* immediate-dominator chain.
C12_DominancePartialOrder ==
    dom_pc = "done" =>
        /\ \A n \in Reachable(graph, entry) :
              Dominates(immediate_dominators, entry, n)
        /\ \A a \in NodeIds :
              /\ Dominates(immediate_dominators, a, a)
              /\ ~StrictlyDominates(immediate_dominators, a, a)
        /\ \A n \in Reachable(graph, entry) :
              \A a, b, c \in DominatorsOf(immediate_dominators, n) :
                  /\ StrictlyDominates(immediate_dominators, a, b)
                  /\ StrictlyDominates(immediate_dominators, b, c)
                  => StrictlyDominates(immediate_dominators, a, c)

\* compute has returned and some node's chain has three nodes: entry strictly
\* dominates its immediate dominator, which strictly dominates the node
C12_Witness ==
    /\ dom_pc = "done"
    /\ \E n \in Reachable(graph, entry) :
          \E b \in NodeIds \ {entry, n} :
              /\ ImmediateDominator(immediate_dominators, n) = b
              /\ StrictlyDominates(immediate_dominators, entry, b)
              /\ StrictlyDominates(immediate_dominators, b, n)
              /\ StrictlyDominates(immediate_dominators, entry, n)

\* the graph without the edges that leave a node not reachable from e
Pruned(g, e) ==
    LET reached == Reachable(g, e)
    IN  [g EXCEPT
            !.successors = [n \in NodeIds |->
                IF n \in reached THEN g.successors[n] ELSE <<>>],
            !.predecessors = [n \in NodeIds |->
                SelectSeq(g.predecessors[n], LAMBDA p : p \in reached)]]

\* C13: compute completes, and a node that is not reachable from entry has no
\* entry in the immediate-dominator map, also when it has predecessors or is a
\* predecessor of a reachable node: immediate_dominator gives None for it,
\* dominates(entry, n) is false, and every reachable node has the immediate
\* dominator it has in the graph without the unreachable nodes' edges.
C13_UnreachableUnassigned ==
    /\ dom_pc # "diverged"
    /\ dom_passes <= Len(reverse_postorder) + 1
    /\ dom_pc = "done" =>
          /\ \A n \in NodeIds \ Reachable(graph, entry) :
                /\ n \notin DOMAIN immediate_dominators
                /\ ImmediateDominator(immediate_dominators, n) = "none"
                /\ ~Dominates(immediate_dominators, entry, n)
          /\ \A n \in Reachable(graph, entry) :
                ImmediateDominator(immediate_dominators, n) =
                    TrueIdom(Pruned(graph, entry), entry, n)

\* compute has returned on a graph in which an unreachable node that has a
\* predecessor is the first predecessor of a reachable node
C13_Witness ==
    /\ dom_pc = "done"
    /\ \E u \in NodeIds \ Reachable(graph, entry) :
          /\ Predecessors(graph, u) # <<>>
          /\ \E x \in Reachable(graph, entry) \ {entry} :
                /\ Predecessors(graph, x)[1] = u
                /\ ImmediateDominator(immediate_dominators, x) # "none"
          /\ ImmediateDominator(immediate_dominators, u) = "none"

----------------------------------------------------------------------------
(* The detector on a to_account_metas that reads a field the struct does   *)
(* not declare.                                                            *)

\* the field types of the struct
StrayFieldTys == {AccountOf("Vault"), UncheckedTy}

\* a program of DetectorInputs with one more block, before or after the
\* generated ones, that reads field n or n + 1 of a struct of n fields
StrayFactInput(tys, ctors, ctor, over, front) ==
    [impls |-> << AccountsImpl("Ctx", tys) >>,
     items |-> << ToAccountMetasItem("Ctx",
                     IF front THEN <<MetaBlock(ctor, Len(tys) + over)>> \o GeneratedBlocks(ctors)
                     ELSE GeneratedBlocks(ctors) \o <<MetaBlock(ctor, Len(tys) + over)>>) >>]

StrayFactInit ==
    /\ \E n \in 0..MaxFields :
       \E tys \in [1..n -> StrayFieldTys], ctors \in [1..n -> Ctors],
          ctor \in {META_NEW, META_NEW_READONLY}, over \in {0, 1}, front \in BOOLEAN :
          /\ ir_impls = StrayFactInput(tys, ctors, ctor, over, front).impls
          /\ ir_items = StrayFactInput(tys, ctors, ctor, over, front).items
    /\ metas = <<>>
    /\ contexts = <<>>
    /\ final_results = <<>>
    /\ findings = <<>>
    /\ dpc = "start"
    /\ CallgraphIdle
    /\ GraphIdle

StrayFactSpec == StrayFactInit /\ [][DetectorNext]_vars

\* the facts whose field index is below n
FactsBelow(res, n) == SelectSeq(res, LAMBDA fact : fact[3] < n)

\* the classified field at position k (1-based) of context c is in a finding
InFinding(c, k) ==
    \E n \in DOMAIN findings :
        findings[n].ctx = c /\ (findings[n].i = k - 1 \/ findings[n].j = k - 1)

\* C14: in every context the detector has checked, a classified field with no
\* fact for its (struct name, declared index) is tagged unknown and is in no
\* finding; and the facts whose index is not below the struct's field count
\* change no tag (so no finding), and the detector gets through them.
C14_UnmatchedIsUnknown ==
    \A c \in DOMAIN final_results :
        /\ \A k \in DOMAIN final_results[c] :
              DeclaredTag(contexts[c].name, final_results[c][k].acct.name) = "None"
              => /\ final_results[c][k].mu = "None"
                 /\ ~InFinding(c, k)
        /\ final_results[c] =
              FinalRes(contexts[c],
                       FactsBelow(metas, Len(ir_impls[c].self_ty.variant.fields)))

----------------------------------------------------------------------------
(* The detector on a program with two Accounts structs.                    *)

\* AccountsStruct for the struct `name` of module `mod`: variant.name() is the
\* struct's own name, whatever the module
AccountsStructIn(mod, name, tys) ==
    [kind |-> "Adt", is_local |-> TRUE, adt_kind |-> "Struct", path |-> <<mod, name>>,
     variant |-> [name |-> name,
                  fields |-> [k \in DOMAIN tys |-> [name |-> k - 1, ty |-> tys[k]]]]]

AccountsImplIn(mod, name, tys) ==
    [trait |-> ANCHOR_ACCOUNTS, self_ty |-> AccountsStructIn(mod, name, tys),
     items |-> << [kind |-> "Fn", name |-> "try_accounts", has_self |-> FALSE] >>]

\* the to_account_metas generated for that struct: its first argument is a
\* reference to <mod>::__client_accounts::<name>
ToAccountMetasItemIn(mod, name, blocks) ==
    [name_has_to_account_metas |-> TRUE, name_has_client_accounts |-> TRUE,
     requires_monomorphization |-> FALSE,
     body |-> [local1_ty |-> [kind |-> "Ref",
                              inner |-> [kind |-> "Adt",
                                         path |-> <<mod, "__client_accounts", name>>]],
               blocks |-> blocks]]

\* the programs: m1::Ctx and a second struct, m2::Ctx or m1::Other, of n1 and
\* n2 Account<Vault> fields, each with its generated to_account_metas, the two
\* functions in either order
TwoStructInput(ctors1, ctors2, second, swap) ==
    LET tys1  == [k \in DOMAIN ctors1 |-> AccountOf("Vault")]
        tys2  == [k \in DOMAIN ctors2 |-> AccountOf("Vault")]
        item1 == ToAccountMetasItemIn("m1", "Ctx", GeneratedBlocks(ctors1))
        item2 == ToAccountMetasItemIn(second[1], second[2], GeneratedBlocks(ctors2))
    IN  [impls |-> << AccountsImplIn("m1", "Ctx", tys1),
                      AccountsImplIn(second[1], second[2], tys2) >>,
         items |-> IF swap THEN <<item2, item1>> ELSE <<item1, item2>>]

TwoStructInit ==
    /\ \E n1, n2 \in 0..(MaxFields - 1) :
       \E ctors1 \in [1..n1 -> Ctors], ctors2 \in [1..n2 -> Ctors],
          second \in {<<"m2", "Ctx">>, <<"m1", "Other">>}, swap \in BOOLEAN :
          /\ ir_impls = TwoStructInput(ctors1, ctors2, second, swap).impls
          /\ ir_items = TwoStructInput(ctors1, ctors2, second, swap).items
    /\ metas = <<>>
    /\ contexts = <<>>
    /\ final_results = <<>>
    /\ findings = <<>>
    /\ dpc = "start"
    /\ CallgraphIdle
    /\ GraphIdle

TwoStructSpec == TwoStructInit /\ [][DetectorNext]_vars

\* the facts extracted from the to_account_metas generated for the struct at path
OwnFacts(path) ==
    FindToAccountMetas(
        SelectSeq(ir_items, LAMBDA item :
            item.body.local1_ty.inner.path = <<path[1], "__client_accounts", path[2]>>))

\* the findings reported for context c, in order
FindingsOf(c) == SelectSeq(findings, LAMBDA f : f.ctx = c)

\* C15: every context the detector has checked is checked on its own: each of
\* its findings pairs two of its own fields, and its tags and findings are
\* those that the facts extracted for its own struct alone give, whatever the
\* facts of the other struct are, also when that struct has the same short name.
C15_ContextsIndependent ==
    \A c \in DOMAIN final_results :
        /\ \A n \in DOMAIN findings :
              findings[n].ctx = c =>
                  /\ findings[n].i \in 0..(Len(contexts[c].anchor_accounts) - 1)
                  /\ findings[n].j \in 0..(Len(contexts[c].anchor_accounts) - 1)
        /\ final_results[c] = FinalRes(contexts[c], OwnFacts(ir_impls[c].self_ty.path))
        /\ FindingsOf(c) =
              PairScan(c, FinalRes(contexts[c], OwnFacts(ir_impls[c].self_ty.path)), 0, 1)

----------------------------------------------------------------------------
(* Field classification: structs over every shape of field type.           *)

ProgramOf(t) == AdtTy(PROGRAM, <<LifetimeArg, TypeArg(AdtTy(t, <<>>))>>)
SysvarOf(t)  == AdtTy(SYSVAR, <<LifetimeArg, TypeArg(AdtTy(t, <<>>))>>)

\* Account whose generic position 1 is absent or a rigid non-ADT type
MalformedAccount ==
    {AdtTy(ACCOUNT, <<LifetimeArg>>),
     AdtTy(ACCOUNT, <<LifetimeArg, TypeArg(UintTy)>>)}

\* Sysvar whose generic position 1 is a lifetime or a non-rigid type
MalformedSysvar ==
    {AdtTy(SYSVAR, <<LifetimeArg, LifetimeArg>>),
     AdtTy(SYSVAR, <<LifetimeArg, TypeArg(ParamTy)>>)}

ClassifyFieldTys ==
    {AccountOf("Vault"), SignerTy, ProgramOf("System"), SysvarOf("Rent"),
     UncheckedTy, UintTy, ParamTy}
        \cup MalformedAccount \cup MalformedSysvar

\* one Accounts struct over these types; its to_account_metas marks every
\* declared field mutable
ClassifyInput(tys) ==
    [impls |-> << AccountsImpl("Ctx", tys) >>,
     items |-> << ToAccountMetasItem("Ctx",
                      GeneratedBlocks([k \in DOMAIN tys |-> META_NEW])) >>]

ClassifyInit ==
    /\ \E n \in 0..MaxFields : \E tys \in [1..n -> ClassifyFieldTys] :
          /\ ir_impls = ClassifyInput(tys).impls
          /\ ir_items = ClassifyInput(tys).items
    /\ metas = <<>>
    /\ contexts = <<>>
    /\ final_results = <<>>
    /\ findings = <<>>
    /\ dpc = "start"
    /\ CallgraphIdle
    /\ GraphIdle

ClassifySpec == ClassifyInit /\ [][DetectorNext]_vars

\* the type at generic position 1 is an ADT
AdtAtOne(ty) ==
    /\ Len(ty.args) >= 2
    /\ ty.args[2].g = "Type"
    /\ ty.args[2].ty.kind = "Adt"

\* the declared fields that are kept, in declaration order
KeptFields(fields) ==
    LET Keep(f) ==
            /\ f.ty.kind = "Adt"
            /\ \/ f.ty.name \in {SIGNER, PROGRAM}
               \/ f.ty.name \in {ACCOUNT, SYSVAR} /\ AdtAtOne(f.ty)
    IN  SelectSeq(fields, Keep)

\* C16: the classified fields of a context are its declared fields of type
\* Account<T> or Sysvar<T> with an ADT T at generic position 1, Signer and
\* Program, in declaration order; Account<T> and Sysvar<T> are both classified
\* Account(T), Signer is Signer, Program is Program, and no field has the
\* Sysvar kind; every other declared field is dropped.
C16_ClassificationTable ==
    dpc \in {"loop", "done"} =>
        /\ Len(contexts) = Len(ir_impls)
        /\ \A c \in DOMAIN contexts :
              LET kept == KeptFields(ir_impls[c].self_ty.variant.fields)
                  got  == contexts[c].anchor_accounts
              IN  /\ Len(got) = Len(kept)
                  /\ \A k \in DOMAIN got :
                        /\ got[k].name = kept[k].name
                        /\ got[k].kind.tag # "Sysvar"
                        /\ kept[k].ty.name \in {ACCOUNT, SYSVAR} =>
                              got[k].kind = KindAccount(kept[k].ty.args[2].ty.name)
                        /\ kept[k].ty.name = SIGNER => got[k].kind = KindSigner
                        /\ kept[k].ty.name = PROGRAM => got[k].kind = KindProgram

\* a context with a Sysvar<Rent> field classified Account(Rent), a Program
\* field, and a malformed or non-ADT field dropped
C16_Witness ==
    /\ dpc = "done"
    /\ Len(contexts) = 1
    /\ LET fields == ir_impls[1].self_ty.variant.fields
           got == contexts[1].anchor_accounts
       IN  /\ Len(fields) = 3
           /\ fields[1].ty = SysvarOf("Rent")
           /\ fields[2].ty \in MalformedAccount \cup MalformedSysvar \cup {UintTy, ParamTy}
           /\ fields[3].ty = ProgramOf("System")
           /\ got = << [name |-> 0, kind |-> KindAccount("Rent")],
                       [name |-> 2, kind |-> KindProgram] >>

----------------------------------------------------------------------------
(* Context collection: trait impls of every shape.                         *)

MaxAssocItems == 2

\* the associated items of an impl: try_accounts without and with a receiver,
\* another function, an associated type
AssocItems ==
    {[kind |-> "Fn", name |-> "try_accounts", has_self |-> FALSE],
     [kind |-> "Fn", name |-> "try_accounts", has_self |-> TRUE],
     [kind |-> "Fn", name |-> "exit", has_self |-> FALSE],
     [kind |-> "Type", name |-> "Bumps", has_self |-> FALSE]}

\* the self types of an impl: a local struct, a struct of another crate, a
\* local enum, a reference
SelfTys ==
    LET local == AccountsStruct("Ctx", <<AccountOf("Vault"), SignerTy>>)
    IN  {local,
         [local EXCEPT !.is_local = FALSE],
         [local EXCEPT !.adt_kind = "Enum"],
         [kind |-> "Ref"]}

TraitNames == {ANCHOR_ACCOUNTS, "core::clone::Clone"}

\* the impls that come after the one whose shape varies
LaterImpls ==
    {AccountsImpl("Other", <<AccountOf("Pool")>>),
     [AccountsImpl("Other", <<AccountOf("Pool")>>) EXCEPT !.trait = "core::fmt::Debug"]}

ImplsInit ==
    /\ \E n \in 0..MaxAssocItems :
       \E trait \in TraitNames, self_ty \in SelfTys, items \in [1..n -> AssocItems],
          later \in LaterImpls :
          ir_impls = << [trait |-> trait, self_ty |-> self_ty, items |-> items], later >>
    /\ ir_items = << ToAccountMetasItem("Ctx", GeneratedBlocks(<<META_NEW, META_NEW>>)) >>
    /\ metas = <<>>
    /\ contexts = <<>>
    /\ final_results = <<>>
    /\ findings = <<>>
    /\ dpc = "start"
    /\ CallgraphIdle
    /\ GraphIdle

ImplsSpec == ImplsInit /\ [][DetectorNext]_vars

\* the impl is of the Accounts trait for a local struct and lists a function
\* try_accounts without a receiver
YieldsContext(trait_impl) ==
    /\ trait_impl.trait = ANCHOR_ACCOUNTS
    /\ trait_impl.self_ty.kind = "Adt"
    /\ trait_impl.self_ty.is_local
    /\ trait_impl.self_ty.adt_kind = "Struct"
    /\ \E k \in DOMAIN trait_impl.items :
          /\ trait_impl.items[k].kind = "Fn"
          /\ trait_impl.items[k].name = "try_accounts"
          /\ ~trait_impl.items[k].has_self

\* C17: the collected contexts are, in the order of the trait impls, exactly
\* one context for each impl of the Accounts trait for a local struct that
\* lists a function try_accounts without a receiver, however many such
\* functions it lists, and none for an impl of another trait, for a non-local
\* type or for a type that is not a struct.
C17_OneContextPerImpl ==
    dpc \in {"loop", "done"} =>
        LET yielding == SelectSeq(ir_impls, YieldsContext)
        IN  /\ Len(contexts) = Len(yielding)
            /\ \A c \in DOMAIN contexts :
                  /\ contexts[c].name = yielding[c].self_ty.variant.name
                  /\ contexts[c] = FromVariant(yielding[c].self_ty.variant)

\* an Accounts impl for a local struct that lists try_accounts without a
\* receiver twice gave one context, the impl of another trait after it none
C17_Witness ==
    /\ dpc = "done"
    /\ ir_impls[1].trait = ANCHOR_ACCOUNTS
    /\ ir_impls[1].self_ty = AccountsStruct("Ctx", <<AccountOf("Vault"), SignerTy>>)
    /\ Len(ir_impls[1].items) = 2
    /\ \A k \in 1..2 : IsTryAccounts(ir_impls[1].items[k])
    /\ ir_impls[2].trait # ANCHOR_ACCOUNTS
    /\ Len(contexts) = 1
    /\ contexts[1].name = "Ctx"

----------------------------------------------------------------------------
(* Mutability extraction: blocks of every shape.                           *)

MaxMetaBlocks == 2

DerefElem    == [e |-> "Deref", idx |-> 0]
FieldElem(i) == [e |-> "Field", idx |-> i]

\* the statement `_n = copy ((*_1).i)`
CopyField(i) ==
    [kind |-> "Assign", rvalue |-> "Use", operand |-> "Copy",
     place |-> [local |-> 1, projection |-> <<DerefElem, FieldElem(i)>>]]

\* the statements that differ from it in one part
OtherStatements ==
    {[CopyField(0) EXCEPT !.kind = "StorageLive"],
     [CopyField(0) EXCEPT !.rvalue = "Ref"],
     [CopyField(0) EXCEPT !.operand = "Move"],
     [CopyField(0) EXCEPT !.place.local = 2],
     [CopyField(0) EXCEPT !.place.projection = <<DerefElem>>],
     [CopyField(0) EXCEPT !.place.projection = <<FieldElem(0), DerefElem>>],
     [CopyField(0) EXCEPT !.place.projection = <<DerefElem, FieldElem(0), FieldElem(1)>>]}

\* the terminators that are not a call of a constant AccountMeta::new or
\* AccountMeta::new_readonly
OtherTerminators ==
    {[kind |-> "Goto", func |-> [op |-> "Constant", ty |-> "FnDef", name |-> META_NEW]],
     [kind |-> "Call", func |-> [op |-> "Move", ty |-> "FnPtr", name |-> META_NEW]],
     [kind |-> "Call", func |-> [op |-> "Constant", ty |-> "FnPtr", name |-> META_NEW]],
     [kind |-> "Call", func |-> [op |-> "Constant", ty |-> "FnDef",
                                 name |-> "anchor_lang::prelude::AccountMeta::default"]]}

\* the blocks of a to_account_metas body: the generated ones and the ones that
\* differ from a generated one in the terminator, in the last statement, or in
\* having the copy before the last statement or no statement
BlockShapes ==
    {MetaBlock(ctor, i) : ctor \in {META_NEW, META_NEW_READONLY}, i \in {0, 1}}
        \cup {[MetaBlock(META_NEW, 0) EXCEPT !.term = t] : t \in OtherTerminators}
        \cup {[MetaBlock(META_NEW, 0) EXCEPT !.statements = <<st>>] : st \in OtherStatements}
        \cup {[MetaBlock(META_NEW, 0) EXCEPT !.statements = <<CopyField(0), st>>] :
                  st \in OtherStatements}
        \cup {[MetaBlock(META_NEW_READONLY, 1) EXCEPT !.statements = <<st, CopyField(1)>>] :
                  st \in OtherStatements}
        \cup {[MetaBlock(META_NEW, 0) EXCEPT !.statements = <<>>]}

BlocksInit ==
    /\ ir_impls = << AccountsImpl("Ctx", <<AccountOf("Vault"), AccountOf("Vault")>>) >>
    /\ \E n \in 0..MaxMetaBlocks : \E blocks \in [1..n -> BlockShapes] :
          ir_items = << ToAccountMetasItem("Ctx", blocks) >>
    /\ metas = <<>>
    /\ contexts = <<>>
    /\ final_results = <<>>
    /\ findings = <<>>
    /\ dpc = "start"
    /\ CallgraphIdle
    /\ GraphIdle

BlocksSpec == BlocksInit /\ [][DetectorNext]_vars

\* the block ends in a call of the constant AccountMeta::new or
\* AccountMeta::new_readonly and its last statement assigns a copy of (*_1).i
CopiesFieldIntoMeta(bb, i) ==
    /\ bb.term.kind = "Call"
    /\ bb.term.func.op = "Constant" /\ bb.term.func.ty = "FnDef"
    /\ bb.term.func.name \in {META_NEW, META_NEW_READONLY}
    /\ bb.statements # <<>>
    /\ LET last == bb.statements[Len(bb.statements)]
       IN  /\ last.kind = "Assign" /\ last.rvalue = "Use" /\ last.operand = "Copy"
           /\ last.place.local = 1
           /\ last.place.projection = <<DerefElem, FieldElem(i)>>

\* C18: the facts extracted from a body are, in block order, one fact
\* (struct short name, tag, i) for each block that ends in a call of the
\* constant AccountMeta::new or AccountMeta::new_readonly and whose last
\* statement assigns a copy of the place (*_1).i, with tag "mut" for new and
\* "immu" for new_readonly; a block of any other shape gives no fact, and no
\* block gives more than one.
C18_FactPerMatchingBlock ==
    dpc # "start" =>
        LET blocks == ir_items[1].body.blocks
            hit(bb) == \E i \in {0, 1} : CopiesFieldIntoMeta(bb, i)
            hits == SelectSeq(blocks, hit)
        IN  /\ Len(metas) = Len(hits)
            /\ \A k \in DOMAIN metas :
                  /\ metas[k][1] = "Ctx"
                  /\ CopiesFieldIntoMeta(hits[k], metas[k][3])
                  /\ metas[k][2] = IF hits[k].term.func.name = META_NEW
                                   THEN "mut" ELSE "immu"

\* a body whose first block moves the field instead of copying it and whose
\* second block has the copy last before AccountMeta::new_readonly: one fact
C18_Witness ==
    /\ dpc = "done"
    /\ LET blocks == ir_items[1].body.blocks
       IN  /\ Len(blocks) = 2
           /\ blocks[1] = [MetaBlock(META_NEW, 0) EXCEPT
                              !.statements = <<[CopyField(0) EXCEPT !.operand = "Move"]>>]
           /\ Len(blocks[2].statements) = 2
           /\ CopiesFieldIntoMeta(blocks[2], 1)
    /\ metas = << <<"Ctx", "immu", 1>> >>

----------------------------------------------------------------------------
(* PostDominators::compute as a function of the graph and of the order in  *)
(* which exit_nodes() lists the exits.                                     *)

RECURSIVE PdForFrom(_, _, _, _, _, _)
\* lines 774-822: the loop `for node in &reverse_postorder` from element i on;
\* st is [ipdoms, changed, diverged], diverged when an intersect does not return
PdForFrom(g, pos, exits, rpo, i, st) ==
    IF st.diverged \/ i > Len(rpo) THEN st
    ELSE LET node == rpo[i]
             skip == node \in Range(exits) \/ Successors(g, node) = <<>>
             new_ipdom == NewIpdom(pos, st.ipdoms, exits, Successors(g, node), 1, RealNone)
         IN  IF skip THEN PdForFrom(g, pos, exits, rpo, i + 1, st)
             ELSE IF new_ipdom = Diverges THEN [st EXCEPT !.diverged = TRUE]
             ELSE IF new_ipdom # IpdomGet(st.ipdoms, node)
             THEN PdForFrom(g, pos, exits, rpo, i + 1,
                            [st EXCEPT !.ipdoms = [n \in DOMAIN st.ipdoms \cup {node} |->
                                                      IF n = node THEN new_ipdom
                                                      ELSE st.ipdoms[n]],
                                       !.changed = TRUE])
             ELSE PdForFrom(g, pos, exits, rpo, i + 1, st)

RECURSIVE PdWhileFrom(_, _, _, _, _, _)
\* lines 770-825: the loop `while changed`; diverged also when a pass starts
\* from a map an earlier pass started from
PdWhileFrom(g, pos, exits, rpo, ipdoms, seen) ==
    IF ipdoms \in seen THEN [ipdoms |-> ipdoms, diverged |-> TRUE]
    ELSE LET st == PdForFrom(g, pos, exits, rpo, 1,
                             [ipdoms |-> ipdoms, changed |-> FALSE, diverged |-> FALSE])
         IN  IF st.diverged THEN [ipdoms |-> st.ipdoms, diverged |-> TRUE]
             ELSE IF st.changed
             THEN PdWhileFrom(g, pos, exits, rpo, st.ipdoms, seen \cup {ipdoms})
             ELSE [ipdoms |-> st.ipdoms, diverged |-> FALSE]

\* PostDominators::compute when exit_nodes() returns exits: whether it
\* returns, and the map immediate_post_dominators it has then
PdCompute(g, exits) ==
    LET rpo == PostdomReversePostorder(g, exits)
    IN  PdWhileFrom(g, PostorderPositions(rpo, exits), exits, rpo,
                    InitialPostDominators(g, exits), {})

\* the graphs whose exits exit_nodes() can list in more than one order: up to
\* MaxEdges + 1 edges, every node an edge names registered, two exits or more
ExitOrderInit ==
    /\ \E k \in 0..(MaxEdges + 1) :
          \E es \in EdgeLists(k) :
              /\ FirstUseOrder(es, 0)
              /\ graph = BuildGraph(Named(es), es)
              /\ Cardinality({n \in Named(es) :
                                \A e \in DOMAIN es : es[e][1] # n}) >= 2
    /\ exit_nodes = <<>>
    /\ pd_reverse_postorder = <<>>
    /\ postorder_positions = <<>>
    /\ immediate_post_dominators = <<>>
    /\ pd_changed = FALSE
    /\ pd_i = 0
    /\ pd_pc = "start"
    /\ DominatorsIdle
    /\ DetectorIdle
    /\ CallgraphIdle
    /\ SetDominatorsIdle

ExitOrderSpec == ExitOrderInit /\ [][PostDominatorsNext]_vars

\* the steps of compute arrive where the function says
PdComputeAgrees ==
    /\ pd_pc = "done" =>
          PdCompute(graph, exit_nodes) =
              [ipdoms |-> immediate_post_dominators, diverged |-> FALSE]
    /\ pd_pc = "diverged" => PdCompute(graph, exit_nodes).diverged

\* C19: whenever compute has returned, it returns, with the same immediate
\* post-dominator of every node, Fake ones included, for every other order in
\* which exit_nodes() can list the exits of the graph.
C19_ExitOrderIrrelevant ==
    pd_pc = "done" =>
        \A exits \in ExitNodes(graph) :
            PdCompute(graph, exits) =
                [ipdoms |-> immediate_post_dominators, diverged |-> FALSE]

----------------------------------------------------------------------------
(* Building a graph: add_node and add_edge called in any order.            *)

\* the node ids the calls are made with
BuilderIds == FirstIds(2)

RECURSIVE SumLen(_, _)
\* the number of entries of the lists lists[n], n in ns
SumLen(lists, ns) ==
    IF ns = {} THEN 0
    ELSE LET n == CHOOSE x \in ns : TRUE
         IN  Len(lists[n]) + SumLen(lists, ns \ {n})

\* graph.add_node(node)
GraphAddNode ==
    /\ \E node \in BuilderIds : graph' = AddNode(graph, node)
    /\ UNCHANGED <<domvars, pdvars, dvars, cvars, svars>>

\* graph.add_edge(from, to), at most MaxEdges times
GraphAddEdge ==
    /\ SumLen(graph.successors, NodeIds) < MaxEdges
    /\ \E from \in BuilderIds, to \in BuilderIds : graph' = AddEdge(graph, from, to)
    /\ UNCHANGED <<domvars, pdvars, dvars, cvars, svars>>

\* DirectedGraph::new()
GraphBuildInit ==
    /\ graph = NewGraph
    /\ DominatorsIdle
    /\ PostDominatorsIdle
    /\ DetectorIdle
    /\ CallgraphIdle
    /\ SetDominatorsIdle

GraphBuildNext ==
    \/ GraphAddNode
    \/ GraphAddEdge

GraphBuildSpec == GraphBuildInit /\ [][GraphBuildNext]_vars

\* add_node(n) twice leaves the graph as add_node(n) once does
AddNodeIdempotent ==
    \A n \in BuilderIds : AddNode(AddNode(graph, n), n) = AddNode(graph, n)

\* C20: on every graph built by add_node and add_edge, calling add_node(n)
\* twice, and calling add_edge(a, b) twice, leaves the node set, the successor
\* lists and the predecessor lists as calling it once does.
C20_AddIdempotent ==
    /\ AddNodeIdempotent
    /\ \A a \in BuilderIds, b \in BuilderIds :
          LET once  == AddEdge(graph, a, b)
              twice == AddEdge(AddEdge(graph, a, b), a, b)
          IN  /\ twice.nodes = once.nodes
              /\ twice.successors = once.successors
              /\ twice.predecessors = once.predecessors

\* C21: on every graph built by add_node and add_edge, add_edge(a, b) leaves a
\* and b registered: they are in the node set, exit_nodes() lists b when b has
\* no successor, and the graph is the one that add_node(a), add_node(b),
\* add_edge(a, b) gives.
C21_EdgeRegistersEndpoints ==
    \A a \in BuilderIds, b \in BuilderIds :
        LET after == AddEdge(graph, a, b)
        IN  /\ a \in after.nodes
            /\ b \in after.nodes
            /\ Successors(after, b) = <<>> =>
                  \A exits \in ExitNodes(after) : b \in Range(exits)
            /\ after = AddEdge(AddNode(AddNode(graph, a), b), a, b)

----------------------------------------------------------------------------
(* Dominators::dominator_tree.                                             *)

\* tree.entry(key).or_default()
TreeEntry(tree, key) ==
    IF key \in DOMAIN tree THEN tree
    ELSE [k \in DOMAIN tree \cup {key} |-> IF k = key THEN <<>> ELSE tree[k]]

\* tree.entry(key).or_default().push(child)
TreePush(tree, key, child) ==
    [TreeEntry(tree, key) EXCEPT ![key] = Append(@, child)]

\* a loop body that does not skip the entry node
TreeStepEntryKept(idoms, tree, node) ==
    TreeEntry(TreePush(tree, idoms[node], node), node)

\* lines 275-281: the body of `for (node, idom) in &self.immediate_dominators`
TreeStep(idoms, tree, node) ==
    TreeEntry(IF idoms[node] # node THEN TreePush(tree, idoms[node], node) ELSE tree,
              node)

RECURSIVE DominatorTreeFrom(_, _, _, _)
\* the loop over immediate_dominators, which the HashMap yields in the order
\* `order`, from element k on
DominatorTreeFrom(idoms, order, k, tree) ==
    IF k > Len(order) THEN tree
    ELSE DominatorTreeFrom(idoms, order, k + 1, TreeStep(idoms, tree, order[k]))

\* Dominators::dominator_tree
DominatorTree(idoms, e, order) ==
    DominatorTreeFrom(idoms, order, 1, [k \in {e} |-> <<>>])

\* the orders in which the HashMap immediate_dominators can yield its keys
KeyOrders(idoms) ==
    {q \in Orderings(DOMAIN idoms) : Len(q) = Cardinality(DOMAIN idoms)}

\* the places <<key, position>> at which the tree lists n as a child
ListedAt(tree, n) ==
    {<<key, i>> \in (DOMAIN tree) \X (1..Cardinality(NodeIds)) :
        i <= Len(tree[key]) /\ tree[key][i] = n}

\* C22: after compute, for every node n reachable from entry dominators_of(n)
\* is the set of the nodes d with dominates(d, n) and holds n and entry;
\* immediate_dominator(entry) is None; and dominator_tree() has every
\* reachable node as a key and lists every reachable node but entry once, under
\* its immediate dominator, in whatever order the map is iterated.
C22_ChainAndTree ==
    dom_pc = "done" =>
        /\ \A n \in Reachable(graph, entry) :
              /\ DominatorsOf(immediate_dominators, n) =
                    {d \in NodeIds : Dominates(immediate_dominators, d, n)}
              /\ n \in DominatorsOf(immediate_dominators, n)
              /\ entry \in DominatorsOf(immediate_dominators, n)
        /\ ImmediateDominator(immediate_dominators, entry) = "none"
        /\ \A order \in KeyOrders(immediate_dominators) :
              LET tree == DominatorTree(immediate_dominators, entry, order)
              IN  /\ Reachable(graph, entry) \subseteq DOMAIN tree
                  /\ ListedAt(tree, entry) = {}
                  /\ \A n \in Reachable(graph, entry) \ {entry} :
                        \E i \in 1..Cardinality(NodeIds) :
                            ListedAt(tree, n) =
                                {<<ImmediateDominator(immediate_dominators, n), i>>}

\* compute has returned on a graph in which entry has two children in the
\* tree and one of them has a child of its own
C22_Witness ==
    /\ dom_pc = "done"
    /\ \E order \in KeyOrders(immediate_dominators) :
          LET tree == DominatorTree(immediate_dominators, entry, order)
          IN  /\ Len(tree[entry]) = 2
              /\ \E n \in DOMAIN tree \ {entry} : Len(tree[n]) = 1
    /\ \E n \in Reachable(graph, entry) :
          Cardinality(DominatorsOf(immediate_dominators, n)) = 3

----------------------------------------------------------------------------
(* PostDominators: a node without edges.                                   *)

\* the registered nodes that no edge names
Isolated(g) ==
    {n \in g.nodes : Successors(g, n) = <<>> /\ Predecessors(g, n) = <<>>}

\* the graph without the registered node d
Unregistered(g, d) == [g EXCEPT !.nodes = @ \ {d}]

\* the list q without d
Without(q, d) == SelectSeq(q, LAMBDA x : x # d)

\* C23: a registered node d that no edge names is an exit and its own
\* immediate post-dominator, it post-dominates no other node, and compute
\* gives every other node what it gives on the graph without d: the same
\* immediate post-dominators when it returns, and no result when it gives
\* none there.
C23_IsolatedNodeApart ==
    \A d \in Isolated(graph) :
        LET rest == PdCompute(Unregistered(graph, d), Without(exit_nodes, d))
        IN  /\ pd_pc = "done" =>
                  /\ d \in Range(exit_nodes)
                  /\ ImmediatePostDominator(immediate_post_dominators, d) = RealSome(d)
                  /\ \A n \in NodeIds \ {d} :
                        ~IsPostDominatedBy(immediate_post_dominators, n, d)
                  /\ ~rest.diverged
                  /\ \A n \in graph.nodes \ {d} :
                        immediate_post_dominators[n] = rest.ipdoms[n]
            /\ pd_pc = "diverged" => rest.diverged

\* compute has returned on A -> B -> C with D registered and without edges: C
\* post-dominates A and B, D only itself
C23_Witness ==
    /\ pd_pc = "done"
    /\ graph = BuildGraph({"A", "B", "C", "D"}, << <<"A", "B">>, <<"B", "C">> >>)
    /\ Isolated(graph) = {"D"}
    /\ IsPostDominatedBy(immediate_post_dominators, "A", "C")
    /\ IsPostDominatedBy(immediate_post_dominators, "B", "C")
    /\ IsPostDominatedBy(immediate_post_dominators, "D", "D")
    /\ ~IsPostDominatedBy(immediate_post_dominators, "A", "D")

----------------------------------------------------------------------------
(* PostDominators::post_dominators_iter.                                   *)

\* an iterator that ends after its first item
PostDominatorIterOnce(ipdoms, current) ==
    IF current = "none" THEN <<>> ELSE <<current>>

RECURSIVE PostDominatorIterFrom(_, _)
\* PostDominatorIter::next called until it returns None: the items it yields
\* from the state `current` on ("none" for None)
PostDominatorIterFrom(ipdoms, current) ==
    IF current = "none" THEN <<>>
    ELSE LET ipdom == ImmediatePostDominator(ipdoms, current)
             next  == IF IsRealSome(ipdom) /\ ipdom[2] # current THEN ipdom[2]
                      ELSE "none"
         IN  <<current>> \o PostDominatorIterFrom(ipdoms, next)

\* post_dominators_iter(node).collect()
PostDominatorsIter(ipdoms, node) == PostDominatorIterFrom(ipdoms, node)

\* q lists the registered nodes of g, and g is the chain q[1] -> ... -> q[k]
IsChain(g, q) ==
    /\ q # <<>>
    /\ Range(q) = g.nodes
    /\ Len(q) = Cardinality(g.nodes)
    /\ \A i \in DOMAIN q :
          Successors(g, q[i]) = IF i < Len(q) THEN <<q[i + 1]>> ELSE <<>>
    /\ \A n \in NodeIds \ g.nodes : Successors(g, n) = <<>>

\* the registered nodes without a predecessor
Heads(g) == {n \in g.nodes : Predecessors(g, n) = <<>>}

RECURSIVE FirstSuccessors(_, _, _)
\* n, its first successor, that node's first successor, ...: at most len nodes
FirstSuccessors(g, n, len) ==
    IF len = 0 THEN <<>>
    ELSE <<n>> \o (IF Successors(g, n) = <<>> THEN <<>>
                   ELSE FirstSuccessors(g, Successors(g, n)[1], len - 1))

\* C24: on a linear chain q[1] -> ... -> q[k] compute returns,
\* immediate_post_dominator(q[i]) is q[i + 1] for i < k and q[k] for i = k, and
\* post_dominators_of(q[i]) and post_dominators_iter(q[i]) both yield
\* q[i], ..., q[k] in this order.
C24_LinearChain ==
    \A head \in Heads(graph) :
        LET q == FirstSuccessors(graph, head, Cardinality(graph.nodes))
        IN  IsChain(graph, q) =>
                /\ pd_pc # "diverged"
                /\ pd_pc = "done" =>
                      \A i \in DOMAIN q :
                          /\ ImmediatePostDominator(immediate_post_dominators, q[i]) =
                                RealSome(IF i < Len(q) THEN q[i + 1] ELSE q[i])
                          /\ PostDominatorsOf(immediate_post_dominators, q[i]) =
                                SubSeq(q, i, Len(q))
                          /\ PostDominatorsIter(immediate_post_dominators, q[i]) =
                                SubSeq(q, i, Len(q))

\* compute has returned on a chain of four nodes
C24_Witness ==
    /\ pd_pc = "done"
    /\ \E head \in Heads(graph) :
          LET q == FirstSuccessors(graph, head, Cardinality(graph.nodes))
          IN  /\ Len(q) = 4
              /\ IsChain(graph, q)
              /\ PostDominatorsIter(immediate_post_dominators, q[1]) = q

----------------------------------------------------------------------------
(* Set-based dominators (src/analysis/graph/directed_graph.rs).            *)

MaxSetEdges == 4

\* lines 126-132, TestGraph::new: the implementor of DirectedGraph the tests use
TestGraphNew(start_node) ==
    [nodes |-> {start_node}, successors |-> <<>>, start_node |-> start_node]

\* lines 134-138, TestGraph::add_node
TestGraphAddNode(g, node) == [g EXCEPT !.nodes = @ \cup {node}]

\* map.entry(key).or_default().push(value) on a map of lists
EntryPush(map, key, value) ==
    [k \in DOMAIN map \cup {key} |->
        IF k = key THEN Append(IF key \in DOMAIN map THEN map[key] ELSE <<>>, value)
        ELSE map[k]]

\* lines 140-144, TestGraph::add_edge
TestGraphAddEdge(g, from, to) ==
    [TestGraphAddNode(TestGraphAddNode(g, from), to) EXCEPT
        !.successors = EntryPush(g.successors, from, to)]

RECURSIVE TestGraphAddEdges(_, _, _)
TestGraphAddEdges(g, es, k) ==
    IF k > Len(es) THEN g
    ELSE TestGraphAddEdges(TestGraphAddEdge(g, es[k][1], es[k][2]), es, k + 1)

\* the orders in which a hashed collection can yield the elements of S
HashOrders(S) == {q \in [1..Cardinality(S) -> S] : Range(q) = S}

RECURSIVE PushEach(_, _, _, _)
\* lines 29-31: `for &successor in successors`, from element k on
PushEach(predecessors, node, successors, k) ==
    IF k > Len(successors) THEN predecessors
    ELSE PushEach(EntryPush(predecessors, successors[k], node), node, successors, k + 1)

RECURSIVE ReverseEach(_, _, _, _)
\* lines 28-32: `for (&node, successors) in graph.successors()`, the map
\* yielding its keys in the order `order`, from element k on
ReverseEach(predecessors, succs, order, k) ==
    IF k > Len(order) THEN predecessors
    ELSE ReverseEach(PushEach(predecessors, order[k], succs[order[k]], 1),
                     succs, order, k + 1)

\* predecessor lists without the keys of lines 23-25
ComputePredecessorsNoDefault(g, order) ==
    ReverseEach(<<>>, g.successors, order, 1)

\* compute_predecessors
ComputePredecessors(g, order) ==
    ReverseEach([n \in g.nodes |-> <<>>], g.successors, order, 1)

\* lines 49-60: the initial dominator sets
InitialDominators(g) ==
    [n \in g.nodes |-> IF n = g.start_node THEN {g.start_node} ELSE g.nodes]

RECURSIVE RetainEach(_, _, _, _)
\* lines 85-89: `for pred in node_predecessors.iter().skip(1)`, from element k on
RetainEach(new_dom_set, doms, preds, k) ==
    IF k > Len(preds) THEN new_dom_set
    ELSE RetainEach(IF preds[k] \in DOMAIN doms THEN new_dom_set \cap doms[preds[k]]
                    ELSE new_dom_set,
                    doms, preds, k + 1)

\* lines 80-92: new_dom_set for a node with the predecessor list preds
NewDomSet(doms, preds, node) ==
    RetainEach(IF preds = <<>> THEN {} ELSE doms[preds[1]], doms, preds, 2) \cup {node}

\* let predecessors = compute_predecessors(&graph);
SdPredecessors ==
    /\ sd_pc = "start"
    /\ \E order \in HashOrders(DOMAIN sd_graph.successors) :
          sd_predecessors' = ComputePredecessors(sd_graph, order)
    /\ sd_pc' = "preds"
    /\ UNCHANGED <<sd_graph, sd_all_nodes, sd_dominators, sd_changed, sd_i, sd_passes,
                   graph, domvars, pdvars, dvars, cvars>>

\* lines 46-60 of compute_dominators
SdStart ==
    /\ sd_pc = "preds"
    /\ \E order \in HashOrders(sd_graph.nodes) : sd_all_nodes' = order
    /\ sd_dominators' = InitialDominators(sd_graph)
    /\ sd_pc' = "loop"
    /\ UNCHANGED <<sd_graph, sd_predecessors, sd_changed, sd_i, sd_passes,
                   graph, domvars, pdvars, dvars, cvars>>

\* lines 63-64: `loop { let mut changed = false; ...`
SdLoop ==
    /\ sd_pc = "loop"
    /\ sd_passes <= Cardinality(sd_graph.nodes) * Cardinality(sd_graph.nodes) + 1
    /\ sd_changed' = FALSE
    /\ sd_i' = 1
    /\ sd_passes' = sd_passes + 1
    /\ sd_pc' = "for"
    /\ UNCHANGED <<sd_graph, sd_predecessors, sd_all_nodes, sd_dominators,
                   graph, domvars, pdvars, dvars, cvars>>

\* lines 66-100: one iteration of `for &node in &all_nodes`
SdNode ==
    /\ sd_pc = "for"
    /\ sd_i <= Len(sd_all_nodes)
    /\ LET node == sd_all_nodes[sd_i]
           skip == node = sd_graph.start_node \/ node \notin DOMAIN sd_predecessors
       IN  IF skip
           THEN /\ sd_i' = sd_i + 1
                /\ UNCHANGED <<sd_dominators, sd_changed, sd_pc>>
           ELSE IF /\ sd_predecessors[node] # <<>>
                   /\ sd_predecessors[node][1] \notin DOMAIN sd_dominators
           THEN /\ sd_pc' = "panic"
                /\ UNCHANGED <<sd_dominators, sd_changed, sd_i>>
           ELSE LET new_dom_set == NewDomSet(sd_dominators, sd_predecessors[node], node)
                IN  /\ sd_i' = sd_i + 1
                    /\ sd_pc' = "for"
                    /\ IF node \in DOMAIN sd_dominators /\ sd_dominators[node] # new_dom_set
                       THEN /\ sd_dominators' = [sd_dominators EXCEPT ![node] = new_dom_set]
                            /\ sd_changed' = TRUE
                       ELSE UNCHANGED <<sd_dominators, sd_changed>>
    /\ UNCHANGED <<sd_graph, sd_predecessors, sd_all_nodes, sd_passes,
                   graph, domvars, pdvars, dvars, cvars>>

\* lines 103-105: `if !changed { break; }`
SdPassEnd ==
    /\ sd_pc = "for"
    /\ sd_i > Len(sd_all_nodes)
    /\ sd_pc' = IF sd_changed THEN "loop" ELSE "done"
    /\ UNCHANGED <<sd_graph, sd_predecessors, sd_all_nodes, sd_dominators, sd_changed,
                   sd_i, sd_passes, graph, domvars, pdvars, dvars, cvars>>

\* the graphs the tests build: TestGraph::new for the start node, add_edge up
\* to MaxSetEdges times, and add_node for one more node or none
SetDominatorsInit ==
    /\ \E k \in 0..MaxSetEdges :
          \E es \in EdgeLists(k) :
              /\ FirstUseOrder(es, 1)
              /\ \E extra \in FirstIds(Cardinality(Named(es) \cup {NodeOrder[1]}) + 1) :
                    sd_graph = TestGraphAddNode(
                                   TestGraphAddEdges(TestGraphNew(NodeOrder[1]), es, 1),
                                   extra)
    /\ sd_predecessors = <<>>
    /\ sd_all_nodes = <<>>
    /\ sd_dominators = <<>>
    /\ sd_changed = FALSE
    /\ sd_i = 0
    /\ sd_passes = 0
    /\ sd_pc = "start"
    /\ graph = [nodes |-> {}, successors |-> <<>>, predecessors |-> <<>>]
    /\ DominatorsIdle
    /\ PostDominatorsIdle
    /\ DetectorIdle
    /\ CallgraphIdle

SetPredecessorsNext == SdPredecessors

SetPredecessorsSpec == SetDominatorsInit /\ [][SetPredecessorsNext]_vars

SetDominatorsNext ==
    \/ SdPredecessors
    \/ SdStart
    \/ SdLoop
    \/ SdNode
    \/ SdPassEnd

SetDominatorsSpec == SetDominatorsInit /\ [][SetDominatorsNext]_vars

----------------------------------------------------------------------------
(* C25: compute_predecessors.                                              *)

\* how many elements of the list s are x
Times(s, x) == Cardinality({k \in DOMAIN s : s[k] = x})

\* how many edges p -> n the graph holds
EdgeCount(g, p, n) ==
    IF p \in DOMAIN g.successors THEN Times(g.successors[p], n) ELSE 0

\* C25: the map compute_predecessors returns has a key for every node of the
\* graph, with an empty list for a node without predecessors, and p stands in
\* the list of n once per edge p -> n and never otherwise, cycles included.
C25_PredecessorsReverseEdges ==
    sd_pc = "preds" =>
        /\ DOMAIN sd_predecessors = sd_graph.nodes
        /\ \A n \in sd_graph.nodes :
              /\ (\A p \in sd_graph.nodes : EdgeCount(sd_graph, p, n) = 0)
                    => sd_predecessors[n] = <<>>
              /\ \A p \in NodeIds :
                    Times(sd_predecessors[n], p) = EdgeCount(sd_graph, p, n)

\* a cycle A -> B -> A with a doubled edge A -> B and a node without predecessors
C25_Witness ==
    /\ sd_pc = "preds"
    /\ \E n \in sd_graph.nodes : n # sd_graph.start_node /\ sd_predecessors[n] = <<>>
    /\ EdgeCount(sd_graph, "A", "B") = 2
    /\ EdgeCount(sd_graph, "B", "A") = 1
    /\ Times(sd_predecessors["B"], "A") = 2
    /\ sd_predecessors["A"] = <<"B">>

----------------------------------------------------------------------------
(* C26, C28: compute_dominators on the predecessors of compute_predecessors. *)

\* the successors of the graph as a list for every node id
SuccessorsOfAll(g) ==
    [nodes |-> g.nodes,
     successors |-> [n \in NodeIds |->
                        IF n \in DOMAIN g.successors THEN g.successors[n] ELSE <<>>]]

\* C26: compute_dominators, given the predecessors compute_predecessors
\* returned, ends without a panic and its result holds for every node
\* reachable from the start node exactly the set of that node's dominators,
\* the start node having the set of itself alone.
C26_ExactDominatorSets ==
    /\ sd_pc # "panic"
    /\ sd_pc = "done" =>
          /\ sd_dominators[sd_graph.start_node] = {sd_graph.start_node}
          /\ LET g == SuccessorsOfAll(sd_graph)
             IN  \A n \in Reachable(g, sd_graph.start_node) :
                     sd_dominators[n] = TrueDominators(g, sd_graph.start_node, n)

\* C28: in the result of compute_dominators, a node other than the start
\* node that has no predecessors has the set of all nodes as its dominator set.
C28_NoPredecessorsKeepsAllNodes ==
    sd_pc = "done" =>
        \A n \in sd_graph.nodes \ {sd_graph.start_node} :
            sd_predecessors[n] = <<>> => sd_dominators[n] = sd_graph.nodes

----------------------------------------------------------------------------
(* C27: Dominators::compute terminates, and so do the walks along the map. *)

RECURSIVE ChainStop(_, _, _)
\* where the walk `current = idom(current)` of dominates (lines 214-228) and
\* dominators_of (235-247) stops: at a node without an entry or at a node that
\* is its own entry; "loop" if it has not stopped after `fuel` steps
ChainStop(idoms, current, fuel) ==
    IF current \notin DOMAIN idoms THEN current
    ELSE IF idoms[current] = current THEN current
    ELSE IF fuel = 0 THEN "loop"
    ELSE ChainStop(idoms, idoms[current], fuel - 1)

\* C27: Dominators::compute returns on every graph of the bound, with cycles,
\* self-loops, doubled edges and unreachable nodes; and at every point of the
\* iteration a node other than entry that has an immediate dominator assigned
\* has one that stands before it in reverse postorder, so the walk from it
\* along the map reaches entry within as many steps as there are nodes.
C27_IdomPrecedesNode ==
    /\ dom_pc # "diverged"
    /\ dom_passes <= Len(reverse_postorder) + 1
    /\ \A n \in DOMAIN immediate_dominators :
          IF n = entry THEN immediate_dominators[n] = entry
          ELSE /\ DomPosition(reverse_postorder, immediate_dominators[n])
                    < DomPosition(reverse_postorder, n)
               /\ ChainStop(immediate_dominators, n, Len(reverse_postorder)) = entry

\* in the middle of the second pass over a graph with the cycle A -> B -> A,
\* the self-loop B -> B and the unreachable C, B has its immediate dominator
C27_Witness ==
    /\ dom_pc = "for"
    /\ dom_passes = 2
    /\ graph = BuildGraph({"A", "B", "C"},
                          <<<<"A", "B">>, <<"B", "A">>, <<"B", "B">>, <<"C", "B">>>>)
    /\ "B" \in DOMAIN immediate_dominators
    /\ immediate_dominators["B"] = "A"

----------------------------------------------------------------------------
(* C29: the worklist loop of compute_instances.                            *)

\* the instance whose blocks the for loop is walking, if any
BeingScanned(i) == cpc \in {"scan", "panicked"} /\ curr = i

\* what holds of worklist and nodes in every state of the loop
WorklistWithinVisited ==
    /\ Range(worklist) \subseteq cg_nodes
    /\ \A i \in cg_nodes :
          (i \notin Range(worklist) /\ ~BeingScanned(i)) =>
              /\ cg_pops[i] = 1
              /\ \A c \in cg_calls : c[1] = i => c[2] \in cg_nodes

\* what holds of every step: an instance is put on the worklist only in the
\* step that inserts it into nodes, and nodes loses nothing
PushOnlyWhenInserted ==
    /\ cg_nodes \subseteq cg_nodes'
    /\ \A i \in Instances :
          Times(worklist', i) > Times(worklist, i) =>
              /\ i \notin cg_nodes
              /\ i \in cg_nodes'
              /\ Times(worklist', i) = 1

\* C29: in the worklist loop every instance on the worklist is in nodes, an
\* instance is never pushed again once it is in nodes, nodes never shrinks,
\* and every instance of nodes that is neither on the worklist nor being
\* scanned has been popped and has all the callees resolved from its body in
\* nodes.
C29_WorklistInvariant ==
    /\ [](cpc # "start" => WorklistWithinVisited)
    /\ [][cpc # "start" => PushOnlyWhenInserted]_vars

\* f is scanned and calls g; g, being scanned, has called f (not pushed
\* again) and h (pushed, waiting)
C29_Witness ==
    /\ cpc = "scan"
    /\ local_instances = <<"f">>
    /\ curr = "g"
    /\ cg_calls = {<<"f", "g">>, <<"g", "f">>, <<"g", "h">>}
    /\ worklist = <<"h">>
    /\ cg_pops["f"] = 1
    /\ cg_nodes = {"f", "g", "h"}

----------------------------------------------------------------------------
(* C30: several facts for one field.                                       *)

MaxDupFacts == 4

\* a struct of two Account<Vault> fields whose facts come from up to
\* MaxDupFacts blocks, each a generated block for field 0 or 1 with either
\* constructor, spread over two to_account_metas functions of the struct
DupFactsInit ==
    /\ ir_impls = << AccountsImpl("Ctx", <<AccountOf("Vault"), AccountOf("Vault")>>) >>
    /\ \E n \in 0..MaxDupFacts :
          \E blocks \in [1..n -> {MetaBlock(ctor, i) :
                                     ctor \in {META_NEW, META_NEW_READONLY}, i \in {0, 1}}] :
              \E split \in 0..n :
                  ir_items = << ToAccountMetasItem("Ctx", SubSeq(blocks, 1, split)),
                                ToAccountMetasItem("Ctx", SubSeq(blocks, split + 1, n)) >>
    /\ metas = <<>>
    /\ contexts = <<>>
    /\ final_results = <<>>
    /\ findings = <<>>
    /\ dpc = "start"
    /\ CallgraphIdle
    /\ GraphIdle

DupFactsSpec == DupFactsInit /\ [][DetectorNext]_vars

\* the blocks of all items, in the order find_to_account_metas walks them
BlocksInOrder == ir_items[1].body.blocks \o ir_items[2].body.blocks

\* the field a generated block reads
BlockField(bb) == bb.statements[Len(bb.statements)].place.projection[2].idx

\* the tag of the first block, in extraction order, that reads field idx
FirstFactTag(idx) ==
    LET q == BlocksInOrder
    IN  IF \E k \in DOMAIN q : BlockField(q[k]) = idx
        THEN LET first == CHOOSE k \in DOMAIN q :
                             /\ BlockField(q[k]) = idx
                             /\ \A l \in 1..(k - 1) : BlockField(q[l]) # idx
             IN  IF q[first].term.func.name = META_NEW THEN "mut" ELSE "immu"
        ELSE "None"

\* how many blocks read field idx
FactsFor(idx) == Cardinality({k \in DOMAIN BlocksInOrder : BlockField(BlocksInOrder[k]) = idx})

\* C30: when find_to_account_metas yields several facts with the same struct
\* name and field index, the tag the detector gives the field is that of the
\* first of them in extraction order, whatever the later ones say, and the
\* pair of fields is reported exactly when the first fact of each is "mut".
C30_FirstFactWins ==
    Len(final_results) = 1 =>
        /\ \A idx \in {0, 1} : final_results[1][idx + 1].mu = FirstFactTag(idx)
        /\ Reported(1, 0, 1) =
              (IF FirstFactTag(0) = "mut" /\ FirstFactTag(1) = "mut" THEN 1 ELSE 0)
        /\ Len(findings) = Reported(1, 0, 1)

\* field 0 has a read-only fact followed by a mutable one, field 1 a mutable
\* fact followed by a read-only one: tags "immu" and "mut", nothing reported
C30_Witness ==
    /\ dpc = "loop"
    /\ Len(final_results) = 1
    /\ FactsFor(0) = 2 /\ FactsFor(1) = 2
    /\ metas = << <<"Ctx", "immu", 0>>, <<"Ctx", "mut", 1>>,
                  <<"Ctx", "mut", 0>>, <<"Ctx", "immu", 1>> >>
    /\ final_results[1][1].mu = "immu"
    /\ final_results[1][2].mu = "mut"
    /\ findings = <<>>

====
